---- MODULE Spec2Model ----
(***************************************************************************)
(* KeyHub: the key-tree synchronisation engine.                            *)
(*                                                                         *)
(*   src/src/ipc/translations.ts   flattening codec, file-set resolver,    *)
(*                                 catalog merge and mutation handlers     *)
(*   src/unnamed/part_002          the key-intake HTTP server (server.ts)  *)
(*                                                                         *)
(* Representation of JavaScript values.                                    *)
(*  - A JS string that is used as a key is the sequence of its dot-free    *)
(*    segments: "a.b" is <<"a","b">>, "a" is <<"a">>.  split(".") and the  *)
(*    template `${prefix}.${k}` are then real operations (Split, Join).    *)
(*    The empty prefix "" of flattenJson is <<>>.  Segments are non-empty  *)
(*    identifiers; "constructor" is the name of Object.prototype among     *)
(*    them, a member every object and array inherits, and "__proto__" is   *)
(*    not among them.                                                      *)
(*  - A JSON value is a record [t, s, n, b, a, e]: t is its type, s/n/b/a  *)
(*    the payload of a string/number/boolean/array, and e the list of its  *)
(*    own named properties in insertion order (entries [k, v]).  An array  *)
(*    held in memory can carry named properties; JSON.stringify drops them.*)
(***************************************************************************)
EXTENDS Integers, Sequences, FiniteSets, TLC

VARIABLES
    settings,    \* the persisted settings document (rootFolder, folderStructure, languages)
    disk,        \* the translation files: path -> [st, doc]
    last,        \* the operation that ran last, with its arguments and its outcome
    steps,       \* number of operations run so far
    server,      \* part_002:12  the module's http.Server reference (0 = null)
    currentPort, \* part_002:13
    listeners,   \* every http.Server created so far: id -> [st, port]
    srvLast,     \* the server call or event that ran last, with its outcome
    cDoc,        \* codec: the input document
    cKey,        \* codec: the input dotted key
    cOut,        \* codec: the result of the function applied
    cOp,         \* codec: which function was applied
    tasks,       \* event loop: the intake request and the UI call in progress
    running,     \* event loop: the task whose handler is on the call stack
    pending,     \* the request received whose "end" callback has not run yet
    home         \* the state of the home view: langCodes, namespaces and its rows

catalogVars == <<settings, disk, last, steps>>
serverVars == <<server, currentPort, listeners, srvLast>>
codecVars == <<cDoc, cKey, cOut, cOp>>
loopVars == <<tasks, running>>
turnVars == <<pending, home>>
vars == <<settings, disk, last, steps, server, currentPort, listeners, srvLast,
          cDoc, cKey, cOut, cOp, tasks, running, pending, home>>

----------------------------------------------------------------------------
(* JSON values *)

Str(x) == [t |-> "str", s |-> x, n |-> 0, b |-> FALSE, a |-> <<>>, e |-> <<>>]
Num(x) == [t |-> "num", s |-> "", n |-> x, b |-> FALSE, a |-> <<>>, e |-> <<>>]
Bool(x) == [t |-> "bool", s |-> "", n |-> 0, b |-> x, a |-> <<>>, e |-> <<>>]
Null == [t |-> "null", s |-> "", n |-> 0, b |-> FALSE, a |-> <<>>, e |-> <<>>]
Arr(x) == [t |-> "arr", s |-> "", n |-> 0, b |-> FALSE, a |-> x, e |-> <<>>]
Obj(x) == [t |-> "obj", s |-> "", n |-> 0, b |-> FALSE, a |-> <<>>, e |-> x]
Entry(key, val) == [k |-> key, v |-> val]
\* a function, as Object.prototype.constructor, and undefined
Fn == [t |-> "function", s |-> "", n |-> 0, b |-> FALSE, a |-> <<>>, e |-> <<>>]
Undefined == [t |-> "undefined", s |-> "", n |-> 0, b |-> FALSE, a |-> <<>>, e |-> <<>>]

\* typeof v === "object": plain objects, arrays and null.
TypeofObject(v) == v.t \in {"obj", "arr", "null"}

\* v && typeof v === "object" && !Array.isArray(v)
IsPlainObject(v) == v.t = "obj"

(* Own properties of a JS object, in insertion order *)

\* Object.keys(obj).includes(key): key is an own property
Has(es, key) == \E i \in 1..Len(es) : es[i].k = key

IndexOf(es, key) == CHOOSE i \in 1..Len(es) : es[i].k = key

\* obj[key] for an own property
Get(es, key) == es[IndexOf(es, key)].v

\* the property names every object and array inherits from Object.prototype
ProtoNames == {<<"constructor">>}

\* key in obj: own or inherited
In(es, key) == Has(es, key) \/ key \in ProtoNames

\* obj[key]: the own property, else the inherited member, else undefined
Index(es, key) ==
    IF Has(es, key) THEN Get(es, key)
    ELSE IF key \in ProtoNames THEN Fn
    ELSE Undefined

\* obj[key] = val : an existing property keeps its place, a new one goes last
Put(es, key, val) ==
    IF Has(es, key)
    THEN [es EXCEPT ![IndexOf(es, key)] = Entry(key, val)]
    ELSE Append(es, Entry(key, val))

\* delete obj[key]
Del(es, key) ==
    IF Has(es, key)
    THEN LET i == IndexOf(es, key)
         IN SubSeq(es, 1, i - 1) \o SubSeq(es, i + 1, Len(es))
    ELSE es

\* mutant of KeyCount: no object ever counts as empty
KeyCountNeverEmpty(v) == Len(v.a) + Len(v.e) + 1

\* Object.keys(v).length : the indices of an array count as keys
KeyCount(v) == Len(v.a) + Len(v.e)

(* Strings *)

\* dottedKey.split(".")
Split(dotted) == [i \in 1..Len(dotted) |-> <<dotted[i]>>]

\* mutant of Join: the prefix is dropped
JoinNoPrefix(prefix, key) == key

\* prefix ? `${prefix}.${k}` : k
Join(prefix, key) == IF prefix = <<>> THEN key ELSE prefix \o key

RECURSIVE JoinComma(_)
RECURSIVE StringOf(_)
\* Array.prototype.join(","): each element as a string, null as ""
JoinComma(xs) ==
    IF Len(xs) = 0 THEN ""
    ELSE IF Len(xs) = 1 THEN StringOf(xs[1])
    ELSE StringOf(xs[1]) \o "," \o JoinComma(Tail(xs))

\* String(v ?? "")
StringOf(v) ==
    CASE v.t = "str" -> v.s
      [] v.t = "num" -> ToString(v.n)
      [] v.t = "bool" -> IF v.b THEN "true" ELSE "false"
      [] v.t = "null" -> ""
      [] v.t = "arr" -> JoinComma(v.a)
      [] OTHER -> "[object Object]"

----------------------------------------------------------------------------
(* Flattening codec: translations.ts:42-119 *)

RECURSIVE ObjectAssign(_, _)
\* Object.assign(result, src)
ObjectAssign(result, src) ==
    IF Len(src) = 0 THEN result
    ELSE ObjectAssign(Put(result, src[1].k, src[1].v), Tail(src))

RECURSIVE flattenEntries(_, _, _)
RECURSIVE flattenJson(_, _)
\* the loop of flattenJson over Object.entries(obj), from a result so far
flattenEntries(es, prefix, result) ==
    IF Len(es) = 0 THEN result
    ELSE LET fullKey == Join(prefix, es[1].k)
             v == es[1].v
         IN flattenEntries(Tail(es), prefix,
                IF IsPlainObject(v)
                THEN ObjectAssign(result, flattenJson(v, fullKey))
                ELSE Put(result, fullKey, StringOf(v)))

\* a FlatJson: entries [k |-> dotted key, v |-> string]
flattenJson(obj, prefix) ==
    IF IsPlainObject(obj) THEN flattenEntries(obj.e, prefix, <<>>) ELSE <<>>

RECURSIVE setNestedFrom(_, _, _, _)
\* the walk of setNestedValue from parts[i], current being `cur`
setNestedFrom(cur, parts, i, value) ==
    IF i = Len(parts)
    THEN [cur EXCEPT !.e = Put(cur.e, parts[i], Str(value))]
    ELSE LET keep == In(cur.e, parts[i])
                     /\ TypeofObject(Index(cur.e, parts[i]))
                     /\ Index(cur.e, parts[i]).t # "null"
             child == IF keep THEN Index(cur.e, parts[i]) ELSE Obj(<<>>)
         IN [cur EXCEPT !.e = Put(cur.e, parts[i],
                                  setNestedFrom(child, parts, i + 1, value))]

setNestedValue(obj, dottedKey, value) ==
    setNestedFrom(obj, Split(dottedKey), 1, value)

\* the value a failed call leaves in place of a result
Thrown == [t |-> "TypeError", s |-> "", n |-> 0, b |-> FALSE, a |-> <<>>, e |-> <<>>]

RECURSIVE removeWalk(_, _, _)
\* the first loop of removeNestedKey: "ok" when it reaches the parent of the
\* last part, "return" on its early return, "throw" when it steps into null
removeWalk(cur, parts, i) ==
    IF cur.t = "null" THEN "throw"
    ELSE IF i = Len(parts) THEN "ok"
    ELSE IF ~In(cur.e, parts[i]) \/ ~TypeofObject(Index(cur.e, parts[i])) THEN "return"
    ELSE removeWalk(Index(cur.e, parts[i]), parts, i + 1)

RECURSIVE removeFrom(_, _, _)
\* the delete and the bottom-up clean-up, below `cur` at parts[i]
removeFrom(cur, parts, i) ==
    IF i = Len(parts)
    THEN [cur EXCEPT !.e = Del(cur.e, parts[i])]
    ELSE LET child == removeFrom(Get(cur.e, parts[i]), parts, i + 1)
         IN IF KeyCount(child) = 0
            THEN [cur EXCEPT !.e = Del(cur.e, parts[i])]
            ELSE [cur EXCEPT !.e = Put(cur.e, parts[i], child)]

removeNestedKey(obj, dottedKey) ==
    LET parts == Split(dottedKey)
        walk == removeWalk(obj, parts, 1)
    IN CASE walk = "return" -> obj
         [] walk = "throw" -> Thrown
         [] OTHER -> removeFrom(obj, parts, 1)

\* a.localeCompare(b, undefined, {sensitivity: "base"}) on one segment: letters
\* compare by their base letter, case ignored
Rank(seg) ==
    CASE seg \in {"a", "A"} -> 1
      [] seg \in {"b", "B"} -> 2
      [] seg \in {"c", "C"} -> 3
      [] seg = "constructor" -> 4
      [] seg \in {"d", "D"} -> 5
      [] OTHER -> 6

RECURSIVE localeCompare(_, _)
\* negative, zero or positive, as a.localeCompare(b) on two keys
localeCompare(x, y) ==
    IF Len(x) = 0 /\ Len(y) = 0 THEN 0
    ELSE IF Len(x) = 0 THEN -1
    ELSE IF Len(y) = 0 THEN 1
    ELSE IF Rank(x[1]) # Rank(y[1]) THEN Rank(x[1]) - Rank(y[1])
    ELSE localeCompare(Tail(x), Tail(y))

RECURSIVE insertByKey(_, _)
\* one step of the stable sort: x goes after every element that is not greater
insertByKey(sorted, x) ==
    IF Len(sorted) = 0 THEN <<x>>
    ELSE IF localeCompare(x.k, sorted[1].k) < 0 THEN <<x>> \o sorted
    ELSE <<sorted[1]>> \o insertByKey(Tail(sorted), x)

RECURSIVE sortByKey(_, _)
\* Array.prototype.sort with the localeCompare comparator (stable)
sortByKey(es, sorted) ==
    IF Len(es) = 0 THEN sorted
    ELSE sortByKey(Tail(es), insertByKey(sorted, es[1]))

RECURSIVE sortDeep(_)
sortDeep(obj) ==
    LET es == sortByKey(obj.e, <<>>)
    IN Obj([i \in 1..Len(es) |->
              Entry(es[i].k, IF IsPlainObject(es[i].v) THEN sortDeep(es[i].v)
                             ELSE es[i].v)])

RECURSIVE Stringify(_)
\* JSON.stringify followed by JSON.parse: what a file holds of a value.  The
\* named properties of an array are not serialised, its elements are.
Stringify(v) ==
    CASE v.t = "obj" -> Obj([i \in 1..Len(v.e) |-> Entry(v.e[i].k, Stringify(v.e[i].v))])
      [] v.t = "arr" -> Arr([i \in 1..Len(v.a) |-> Stringify(v.a[i])])
      [] OTHER -> v

----------------------------------------------------------------------------
(* Bounds and input sets *)

\* numbers that occur as leaves and array elements: 1..MaxNum
MaxNum == 1
\* calls issued per behaviour of the catalog; the "end" callback of a request
\* and the second half of loadData complete a call and are not counted
MaxSteps == 2
\* http.Server objects created per behaviour
MaxServers == 2

ka == <<"a">>
kb == <<"b">>
kc == <<"c">>
kd == <<"d">>
kab == <<"a", "b">>

\* objects with at most the two properties k1 (a value of V1) and k2 (a value of
\* V2), in both insertion orders
Objs2(k1, V1, k2, V2) ==
    {Obj(<<>>)}
    \cup {Obj(<<Entry(k1, v)>>) : v \in V1}
    \cup {Obj(<<Entry(k2, w)>>) : w \in V2}
    \cup {Obj(<<Entry(k1, x[1]), Entry(k2, x[2])>>) : x \in V1 \X V2}
    \cup {Obj(<<Entry(k2, x[2]), Entry(k1, x[1])>>) : x \in V1 \X V2}

Scalars == {Str("x"), Str(""), Bool(TRUE), Null} \cup {Num(i) : i \in 1..MaxNum}
Arrays == {Arr(<<>>)} \cup {Arr(<<Num(i)>>) : i \in 1..MaxNum}

\* documents of depth up to three: { a: { b: { c, d }, d }, b | "a.b" }
CodecInner == Objs2(kc, {Str("x"), Num(1)}, kd, {Str("y")})
CodecMid == Objs2(kb, {Str("x"), Null, Arr(<<>>)} \cup CodecInner, kd, {Str("y"), Obj(<<>>)})
CodecDocs ==
    Objs2(ka, Scalars \cup Arrays \cup CodecMid, kb, {Str("z"), Obj(<<>>)})
    \cup Objs2(ka, Scalars \cup CodecMid, kab, {Str("q")})

CodecKeys == {ka, kb, kab, <<"a", "d">>, <<"a", "b", "c">>, <<"a", "b", "d">>}
CodecValues == {"", "v"}

----------------------------------------------------------------------------
(* The codec applied to bounded inputs *)

NoDoc == Obj(<<>>)

RECURSIVE nestFlat(_, _)
\* re-nesting: setNestedValue for each flat entry, in order, from `doc`
nestFlat(flat, doc) ==
    IF Len(flat) = 0 THEN doc
    ELSE nestFlat(Tail(flat), setNestedValue(doc, flat[1].k, flat[1].v))

CodecInit ==
    /\ cDoc \in CodecDocs
    /\ cKey \in CodecKeys
    /\ cOut = NoDoc
    /\ cOp = "none"

CodecRoundTrip ==
    /\ cOp = "none"
    /\ cOut' = nestFlat(flattenJson(cDoc, <<>>), Obj(<<>>))
    /\ cOp' = "roundtrip"
    /\ UNCHANGED <<cDoc, cKey>>

CodecRemove ==
    /\ cOp = "none"
    /\ cOut' = removeNestedKey(cDoc, cKey)
    /\ cOp' = "remove"
    /\ UNCHANGED <<cDoc, cKey>>

CodecSet ==
    /\ cOp = "none"
    /\ \E value \in CodecValues : cOut' = setNestedValue(cDoc, cKey, value)
    /\ cOp' = "set"
    /\ UNCHANGED <<cDoc, cKey>>

CodecSort ==
    /\ cOp = "none"
    /\ cOut' = sortDeep(cDoc)
    /\ cOp' = "sort"
    /\ UNCHANGED <<cDoc, cKey>>

----------------------------------------------------------------------------
(* Settings and files *)

\* path.join(root, dir, name + ".json"); dir = "" for a file of the root itself
Path(root, dir, name) == [root |-> root, dir |-> dir, name |-> name]
File(path, ns) == [absolutePath |-> path, namespace |-> ns]
Language(code, files) == [code |-> code, files |-> files]
NoFile == File(Path("", "", ""), "")

\* what a path holds: nothing, text that JSON.parse rejects, or a JSON object
Absent == [st |-> "absent", doc |-> NoDoc]
Malformed == [st |-> "bad", doc |-> NoDoc]
Json(doc) == [st |-> "json", doc |-> doc]

\* the process state the handlers work on: the persisted settings and the files
State(s, d) == [settings |-> s, disk |-> d]

\* settings.ts is not part of the sources: the settings document is read whole
\* and written whole
loadSettings(S) == S.settings
saveSettings(S, s) == [S EXCEPT !.settings = s]

\* fs.existsSync(filePath)
existsSync(S, path) == S.disk[path].st # "absent"

\* JSON.parse(fs.readFileSync(filePath)), {} when either throws
readJsonFile(S, path) ==
    IF S.disk[path].st = "json" THEN S.disk[path].doc ELSE Obj(<<>>)

\* fs.writeFileSync(filePath, JSON.stringify(sortDeep(json), null, 2))
writeJsonFile(S, path, json) ==
    [S EXCEPT !.disk[path] = Json(Stringify(sortDeep(json)))]

\* mutant of FindLang: the first language is found whatever its code
FindLangAny(languages, code) == IF Len(languages) > 0 THEN 1 ELSE 0

\* languages.find((l) => l.code === code), as an index; 0 when there is none
FindLang(languages, code) ==
    IF \E i \in 1..Len(languages) : languages[i].code = code
    THEN CHOOSE i \in 1..Len(languages) :
            /\ languages[i].code = code
            /\ \A j \in 1..(i - 1) : languages[j].code # code
    ELSE 0

\* mutant of FindFile: an existing File record is never found
FindFileNever(files, ns) == 0

\* files.find((f) => f.namespace === ns), as an index; 0 when there is none
FindFile(files, ns) ==
    IF \E i \in 1..Len(files) : files[i].namespace = ns
    THEN CHOOSE i \in 1..Len(files) :
            /\ files[i].namespace = ns
            /\ \A j \in 1..(i - 1) : files[j].namespace # ns
    ELSE 0

\* [S: the state afterwards, ok: a File is returned, file]
ensureFile(S, langCode, namespace) ==
    LET s == loadSettings(S)
        li == FindLang(s.languages, langCode)
    IN IF li = 0 THEN [S |-> S, ok |-> FALSE, file |-> NoFile]
       ELSE
       LET fi == FindFile(s.languages[li].files, namespace)
       IN IF fi # 0
          THEN [S |-> S, ok |-> TRUE, file |-> s.languages[li].files[fi]]
          ELSE IF s.rootFolder = ""
          THEN [S |-> S, ok |-> FALSE, file |-> NoFile]
          ELSE
          LET filePath == IF s.folderStructure = "flat"
                          THEN Path(s.rootFolder, "", langCode)
                          ELSE Path(s.rootFolder, langCode, namespace)
              S1 == IF ~existsSync(S, filePath)
                    THEN [S EXCEPT !.disk[filePath] = Json(Obj(<<>>))]
                    ELSE S
              file == File(filePath, namespace)
              s1 == [s EXCEPT !.languages[li].files = Append(@, file)]
          IN [S |-> saveSettings(S1, s1), ok |-> TRUE, file |-> file]

----------------------------------------------------------------------------
(* Mutation handlers: translations.ts:283-324 *)

\* translations:updateKey
updateKey(S, namespace, key, langCode, value) ==
    LET r == ensureFile(S, langCode, namespace)
    IN IF ~r.ok THEN r.S
       ELSE LET json == readJsonFile(r.S, r.file.absolutePath)
            IN writeJsonFile(r.S, r.file.absolutePath, setNestedValue(json, key, value))

\* mutant of addKeyWrites: the key is set whether or not the file has it
addKeyWritesAlways(flat, key) == TRUE

\* whether the add writes: !(key in flat)
addKeyWrites(flat, key) == ~In(flat, key)

\* one iteration of the loop of translations:addKey, for the language `code`
addKeyLang(S, code, namespace, key) ==
    LET r == ensureFile(S, code, namespace)
    IN IF ~r.ok THEN r.S
       ELSE LET json == readJsonFile(r.S, r.file.absolutePath)
                flat == flattenJson(json, <<>>)
            IN IF addKeyWrites(flat, key)
               THEN writeJsonFile(r.S, r.file.absolutePath, setNestedValue(json, key, ""))
               ELSE r.S

RECURSIVE addKeyLoop(_, _, _, _, _)
\* for (const lang of settings.languages), from index i of the languages loaded
addKeyLoop(S, langs, i, namespace, key) ==
    IF i > Len(langs) THEN S
    ELSE addKeyLoop(addKeyLang(S, langs[i].code, namespace, key), langs, i + 1,
                    namespace, key)

\* translations:addKey
addKey(S, namespace, key) ==
    addKeyLoop(S, loadSettings(S).languages, 1, namespace, key)

\* mutant of lookupFile: a missing File is created, as ensureFile does
lookupOrCreate(S, lang, namespace) == ensureFile(S, lang.code, namespace)

\* const file = lang.files.find((f) => f.namespace === namespace) in removeKey,
\* as [S, ok, file]
lookupFile(S, lang, namespace) ==
    LET fi == FindFile(lang.files, namespace)
    IN IF fi = 0 THEN [S |-> S, ok |-> FALSE, file |-> NoFile]
       ELSE [S |-> S, ok |-> TRUE, file |-> lang.files[fi]]

\* one iteration of the loop of translations:removeKey:
\* [S, thrown: removeNestedKey threw and the handler stops]
removeKeyLang(S, lang, namespace, key) ==
    LET r == lookupFile(S, lang, namespace)
    IN IF ~r.ok THEN [S |-> r.S, thrown |-> FALSE]
       ELSE LET path == r.file.absolutePath
                json == removeNestedKey(readJsonFile(r.S, path), key)
            IN IF json = Thrown THEN [S |-> r.S, thrown |-> TRUE]
               ELSE [S |-> writeJsonFile(r.S, path, json), thrown |-> FALSE]

RECURSIVE removeKeyLoop(_, _, _, _, _)
removeKeyLoop(S, langs, i, namespace, key) ==
    IF i > Len(langs) THEN [S |-> S, thrown |-> FALSE]
    ELSE LET r == removeKeyLang(S, langs[i], namespace, key)
         IN IF r.thrown THEN r
            ELSE removeKeyLoop(r.S, langs, i + 1, namespace, key)

\* translations:removeKey: [S, thrown: the call is rejected]
removeKey(S, namespace, key) ==
    removeKeyLoop(S, loadSettings(S).languages, 1, namespace, key)

----------------------------------------------------------------------------
(* Catalog merge: translations.ts:243-281 *)

\* localeCompare on the namespace names of the model
NameRank(name) ==
    CASE name = "common" -> 1
      [] name = "default" -> 2
      [] name = "menu" -> 3
      [] OTHER -> 4

RECURSIVE insertName(_, _)
insertName(sorted, x) ==
    IF Len(sorted) = 0 THEN <<x>>
    ELSE IF NameRank(x) < NameRank(sorted[1]) THEN <<x>> \o sorted
    ELSE <<sorted[1]>> \o insertName(Tail(sorted), x)

RECURSIVE sortNames(_, _)
sortNames(xs, sorted) ==
    IF Len(xs) = 0 THEN sorted
    ELSE sortNames(Tail(xs), insertName(sorted, xs[1]))

\* Set.add: the elements in the order of their first insertion
SetAdd(xs, x) == IF \E i \in 1..Len(xs) : xs[i] = x THEN xs ELSE Append(xs, x)

RECURSIVE SetAddAll(_, _)
SetAddAll(xs, ys) ==
    IF Len(ys) = 0 THEN xs ELSE SetAddAll(SetAdd(xs, ys[1]), Tail(ys))

RECURSIVE allNamespacesOf(_, _)
\* for (const lang of languages) for (const file of lang.files) add(file.namespace)
allNamespacesOf(languages, acc) ==
    IF Len(languages) = 0 THEN acc
    ELSE allNamespacesOf(Tail(languages),
            SetAddAll(acc, [i \in 1..Len(languages[1].files) |->
                                languages[1].files[i].namespace]))

RECURSIVE langMapsOf(_, _, _, _)
\* langMaps[lang.code] = flat | {} for every language: entries [k: code, v: FlatJson]
langMapsOf(S, languages, ns, acc) ==
    IF Len(languages) = 0 THEN acc
    ELSE LET lang == languages[1]
             fi == FindFile(lang.files, ns)
             flat == IF fi # 0
                     THEN flattenJson(readJsonFile(S, lang.files[fi].absolutePath), <<>>)
                     ELSE <<>>
         IN langMapsOf(S, Tail(languages), ns, Put(acc, lang.code, flat))

RECURSIVE allKeysOf(_, _, _, _)
\* allKeys.add(k) for the keys of the flat map of every language that has a file
allKeysOf(S, languages, ns, acc) ==
    IF Len(languages) = 0 THEN acc
    ELSE LET lang == languages[1]
             fi == FindFile(lang.files, ns)
             flat == IF fi # 0
                     THEN flattenJson(readJsonFile(S, lang.files[fi].absolutePath), <<>>)
                     ELSE <<>>
         IN allKeysOf(S, Tail(languages), ns,
                      SetAddAll(acc, [i \in 1..Len(flat) |-> flat[i].k]))

\* langMaps[code]?.[key] ?? null: the string of the flat map, the member that
\* the flat map inherits when it has no such key, else null
valueOrNull(langMaps, code, key) ==
    IF ~Has(langMaps, code) THEN Null
    ELSE IF Has(Get(langMaps, code), key) THEN Str(Get(Get(langMaps, code), key))
    ELSE IF key \in ProtoNames THEN Fn
    ELSE Null

RECURSIVE fromEntries(_, _, _, _)
\* Object.fromEntries(langCodes.map((code) => [code, ...]))
fromEntries(langCodes, langMaps, key, acc) ==
    IF Len(langCodes) = 0 THEN acc
    ELSE fromEntries(Tail(langCodes), langMaps, key,
                     Put(acc, langCodes[1], valueOrNull(langMaps, langCodes[1], key)))

\* the NamespaceData of one namespace
namespaceData(S, ns) ==
    LET s == loadSettings(S)
        langCodes == [i \in 1..Len(s.languages) |-> s.languages[i].code]
        langMaps == langMapsOf(S, s.languages, ns, <<>>)
        allKeys == allKeysOf(S, s.languages, ns, <<>>)
        sorted == sortByKey([i \in 1..Len(allKeys) |-> Entry(allKeys[i], Null)], <<>>)
    IN [namespace |-> ns,
        keys |-> [i \in 1..Len(sorted) |->
                    [key |-> sorted[i].k,
                     values |-> fromEntries(langCodes, langMaps, sorted[i].k, <<>>)]]]

\* translations:readAll
readAll(S) ==
    LET nss == sortNames(allNamespacesOf(loadSettings(S).languages, <<>>), <<>>)
    IN [i \in 1..Len(nss) |-> namespaceData(S, nss[i])]

----------------------------------------------------------------------------
(* The key tree of the home view: tree-utils.ts:3-24, 54-69, home.tsx:59-79 *)

\* a TreeNode; hasValues is FALSE where node.values is undefined
TreeNode(segment, fullKey, children, hasValues, values) ==
    [segment |-> segment, fullKey |-> fullKey, children |-> children,
     hasValues |-> hasValues, values |-> values]

RECURSIVE insertNode(_, _, _, _, _)
\* the inner loop of buildTree from parts[i] on, among `siblings`
insertNode(siblings, parts, i, pathSoFar, values) ==
    LET path == Join(pathSoFar, parts[i])
        isLast == i = Len(parts)
        found == \E n \in 1..Len(siblings) : siblings[n].segment = parts[i]
        at == CHOOSE n \in 1..Len(siblings) :
                 /\ siblings[n].segment = parts[i]
                 /\ \A m \in 1..(n - 1) : siblings[m].segment # parts[i]
        node == IF found THEN siblings[at] ELSE TreeNode(parts[i], path, <<>>, FALSE, <<>>)
        valued == IF isLast THEN [node EXCEPT !.hasValues = TRUE, !.values = values]
                  ELSE node
        grown == IF isLast THEN valued
                 ELSE [valued EXCEPT
                         !.children = insertNode(@, parts, i + 1, path, values)]
    IN IF found THEN [siblings EXCEPT ![at] = grown] ELSE Append(siblings, grown)

RECURSIVE buildFrom(_, _)
\* for (const entry of keys), from the root built so far
buildFrom(keys, root) ==
    IF Len(keys) = 0 THEN root
    ELSE buildFrom(Tail(keys),
                   insertNode(root, Split(keys[1].key), 1, <<>>, keys[1].values))

buildTree(keys) == buildFrom(keys, <<>>)

\* n.children.length === 0 && n.values !== undefined
isLeafNode(n) == Len(n.children) = 0 /\ n.hasValues

\* langCodes.some((c) => values[c] === null || values[c] === "")
isMissing(values, langCodes) ==
    \E i \in 1..Len(langCodes) :
        /\ Has(values, langCodes[i])
        /\ Get(values, langCodes[i]) \in {Null, Str("")}

RECURSIVE countKeys(_, _)
countKeys(nodes, langCodes) ==
    IF Len(nodes) = 0 THEN [completed |-> 0, missing |-> 0]
    ELSE LET n == nodes[1]
             rest == countKeys(Tail(nodes), langCodes)
             sub == IF isLeafNode(n)
                    THEN IF isMissing(n.values, langCodes)
                         THEN [completed |-> 0, missing |-> 1]
                         ELSE [completed |-> 1, missing |-> 0]
                    ELSE countKeys(n.children, langCodes)
         IN [completed |-> sub.completed + rest.completed,
             missing |-> sub.missing + rest.missing]

\* the namespace rows of flatRows without a search: the aggregate of each
\* namespace with the counts shown for it
flatRows(namespaces, langCodes) ==
    [i \in 1..Len(namespaces) |->
        LET counts == countKeys(buildTree(namespaces[i].keys), langCodes)
        IN [namespace |-> namespaces[i].namespace, keys |-> namespaces[i].keys,
            completedCount |-> counts.completed, missingCount |-> counts.missing]]

----------------------------------------------------------------------------
(* Key intake: part_002:15-97 *)

\* a request: its method, whether the url matches /locales/:lng/:ns and with
\* which lng and ns, and its body
Request(method, match, lang, ns, body) ==
    [method |-> method, match |-> match, lang |-> lang, ns |-> ns, body |-> body]

\* a body: text that is not JSON ("invalid"), the JSON null ("null"), a JSON
\* object without a key ("nokey"), or {key, defaultValue} ("key"); dv = "" when
\* defaultValue is missing or falsy
Body(kind, key, dv) == [kind |-> kind, key |-> key, dv |-> dv]

\* one iteration of the first loop of the "end" callback:
\* [S, added: the key was written, thrown: setNestedValue threw]
intakeLang(S, code, namespace, body) ==
    LET r == ensureFile(S, code, namespace)
    IN IF ~r.ok THEN [S |-> r.S, added |-> FALSE, thrown |-> FALSE]
       ELSE LET json == readJsonFile(r.S, r.file.absolutePath)
                flat == flattenJson(json, <<>>)
            IN IF body.kind = "nokey"
               \* "undefined" in flat is false, and undefined.split throws
               THEN [S |-> r.S, added |-> FALSE, thrown |-> TRUE]
               ELSE IF ~In(flat, body.key)
               THEN [S |-> writeJsonFile(r.S, r.file.absolutePath,
                                         setNestedValue(json, body.key, "")),
                     added |-> TRUE, thrown |-> FALSE]
               ELSE [S |-> r.S, added |-> FALSE, thrown |-> FALSE]

\* if (!addedKeys.includes(key)) addedKeys.push(key)
trackAdded(addedKeys, key) == SetAdd(addedKeys, key)

RECURSIVE intakeLoop(_, _, _, _, _, _)
\* [S, addedKeys, thrown]
intakeLoop(S, langs, i, namespace, body, addedKeys) ==
    IF i > Len(langs) THEN [S |-> S, addedKeys |-> addedKeys, thrown |-> FALSE]
    ELSE LET r == intakeLang(S, langs[i].code, namespace, body)
         IN IF r.thrown THEN [S |-> r.S, addedKeys |-> addedKeys, thrown |-> TRUE]
            ELSE intakeLoop(r.S, langs, i + 1, namespace, body,
                            IF r.added THEN trackAdded(addedKeys, body.key)
                            ELSE addedKeys)

\* if (defaultValue && typeof defaultValue === "string") ...
intakeDefault(S, langCode, namespace, body) ==
    IF body.dv = "" THEN S
    ELSE LET r == ensureFile(S, langCode, namespace)
         IN IF ~r.ok THEN r.S
            ELSE writeJsonFile(r.S, r.file.absolutePath,
                    setNestedValue(readJsonFile(r.S, r.file.absolutePath),
                                   body.key, body.dv))

\* the headers of lines 23-25
AllowOrigin == "Access-Control-Allow-Origin"
corsHeaders == {AllowOrigin, "Access-Control-Allow-Methods", "Access-Control-Allow-Headers"}

\* mutant of setCors: the headers are set on the POST path only
setCorsOnPost(req) == IF req.method = "POST" /\ req.match THEN corsHeaders ELSE {}

\* res.setHeader(...) three times, before the method and the url are looked at
setCors(req) == corsHeaders

\* what a request leaves: the state, the status of the response, the headers
\* given to writeHead, whether it has a body, and the notifications sent
Response(res, S, status, hasBody, notified) ==
    [S |-> S, status |-> status,
     headers |-> res \cup (IF hasBody THEN {"Content-Type"} ELSE {}),
     hasBody |-> hasBody, notified |-> notified]

\* the "end" callback of a POST on /locales/<lang>/<namespace>
intakeEnd(S, req, res) ==
    IF req.body.kind \in {"invalid", "null"}
    \* JSON.parse throws, or the destructuring of null does
    THEN Response(res, S, 400, TRUE, <<>>)
    ELSE LET r == intakeLoop(S, loadSettings(S).languages, 1, req.ns, req.body, <<>>)
         IN IF r.thrown THEN Response(res, r.S, 400, TRUE, <<>>)
            ELSE Response(res, intakeDefault(r.S, req.lang, req.ns, req.body), 200, TRUE,
                          IF Len(r.addedKeys) > 0
                          THEN <<[namespace |-> req.ns, keys |-> r.addedKeys]>>
                          ELSE <<>>)

\* handleRequest returns without an answer: neither of its two early returns is
\* taken, req.on("data") and req.on("end") are registered
registersEnd(req) ==
    /\ req.method # "OPTIONS"
    /\ ~(~req.match \/ req.method # "POST")

\* the answer handleRequest gives before it returns, for a request that
\* registers no "end" callback: 204 to OPTIONS, 404 to the others
answerAtOnce(S, req, res) ==
    IF req.method = "OPTIONS" THEN Response(res, S, 204, FALSE, <<>>)
    ELSE Response(res, S, 404, TRUE, <<>>)

\* handleRequest, with the "data" and "end" events of the request; res holds
\* the headers set on the response before any branch is taken
handleRequest(S, req) ==
    LET res == setCors(req)
    IN IF registersEnd(req) THEN intakeEnd(S, req, res)
       ELSE answerAtOnce(S, req, res)

----------------------------------------------------------------------------
(* Import: translations.ts:33-40, 147-183 *)

\* the roots, the locale names and the file names that occur on the disk of the
\* model, the last two in the order fs.readdirSync lists them
Roots == {"r"}
LocaleNames == <<"en-US", "fr-FR">>
FileNames == <<"common", "default", "menu">>

SeqRange(xs) == {xs[i] : i \in 1..Len(xs)}

AllPaths ==
    {Path(r, "", c) : r \in Roots, c \in SeqRange(LocaleNames)}
    \cup {Path(x[1], x[2], x[3]) : x \in Roots \X SeqRange(LocaleNames) \X SeqRange(FileNames)}

\* fs.readdirSync(dirPath).filter(name ends with ".json").map(...)
scanJsonFiles(S, root, dir) ==
    LET names == SelectSeq(FileNames, LAMBDA n : existsSync(S, Path(root, dir, n)))
    IN [i \in 1..Len(names) |-> File(Path(root, dir, names[i]), names[i])]

\* the locale subdirectories that hold at least one .json file, as languages
scanNamespaced(S, root) ==
    LET dirs == SelectSeq(LocaleNames, LAMBDA c : Len(scanJsonFiles(S, root, c)) > 0)
    IN [i \in 1..Len(dirs) |-> Language(dirs[i], scanJsonFiles(S, root, dirs[i]))]

\* mutant of scanFlat: the files of the root are not looked at
scanFlatNothing(S, root) == <<>>

\* the <locale>.json files of the root, as languages of the namespace "default"
scanFlat(S, root) ==
    LET codes == SelectSeq(LocaleNames, LAMBDA c : existsSync(S, Path(root, "", c)))
    IN [i \in 1..Len(codes) |->
          Language(codes[i], <<File(Path(root, "", codes[i]), "default")>>)]

\* mutant of resetLanguages: the languages configured before are kept
keepLanguages(s) == s.languages

\* settings.languages = []
resetLanguages(s) == <<>>

\* translations:importFolder once the dialog has returned rootPath
importFolder(S, rootPath) ==
    LET s == loadSettings(S)
        s0 == [s EXCEPT !.rootFolder = rootPath, !.languages = resetLanguages(s)]
        s1 == [s0 EXCEPT !.languages = @ \o scanNamespaced(S, rootPath)]
        s2 == [s1 EXCEPT !.languages = @ \o scanFlat(S, rootPath)]
    IN saveSettings(S,
        IF Len(s1.languages) > 0
        THEN [s1 EXCEPT !.folderStructure = "namespaced"]
        ELSE [s2 EXCEPT !.folderStructure = IF Len(s2.languages) > 0 THEN "flat"
                                            ELSE "namespaced"])

----------------------------------------------------------------------------
(* Languages and file references: translations.ts:186-241 *)

\* mutant of knownLanguage: a configured code is not recognised
knownLanguageNever(languages, code) == FALSE

\* settings.languages.some((l) => l.code === code)
knownLanguage(languages, code) ==
    \E i \in 1..Len(languages) : languages[i].code = code

\* if (!fs.existsSync(filePath)) fs.writeFileSync(filePath, "{}")
createIfMissing(S, filePath) ==
    IF ~existsSync(S, filePath) THEN [S EXCEPT !.disk[filePath] = Json(Obj(<<>>))]
    ELSE S

\* mutant of createFiles: a file for the first namespace only
createFilesFirst(S, root, code, nss, files) ==
    IF Len(nss) = 0 THEN [S |-> S, files |-> files]
    ELSE [S |-> createIfMissing(S, Path(root, code, nss[1])),
          files |-> Append(files, File(Path(root, code, nss[1]), nss[1]))]

RECURSIVE createFiles(_, _, _, _, _)
\* for (const ns of allNamespaces): the file is created if missing and its File
\* pushed; [S, files]
createFiles(S, root, code, nss, files) ==
    IF Len(nss) = 0 THEN [S |-> S, files |-> files]
    ELSE LET filePath == Path(root, code, nss[1])
         IN createFiles(createIfMissing(S, filePath), root, code, Tail(nss),
                        Append(files, File(filePath, nss[1])))

\* translations:addLanguage
addLanguage(S, code) ==
    LET s == loadSettings(S)
    IN IF s.rootFolder = "" THEN S
       ELSE IF knownLanguage(s.languages, code) THEN S
       ELSE IF s.folderStructure = "flat"
       THEN LET filePath == Path(s.rootFolder, "", code)
            IN saveSettings(createIfMissing(S, filePath),
                  [s EXCEPT !.languages =
                      Append(@, Language(code, <<File(filePath, "default")>>))])
       ELSE LET r == createFiles(S, s.rootFolder, code,
                                 allNamespacesOf(s.languages, <<>>), <<>>)
            IN saveSettings(r.S,
                  [s EXCEPT !.languages = Append(@, Language(code, r.files))])

\* mutant of withLanguages: the settings saved hold the languages only
withLanguagesOnly(s, languages) ==
    [rootFolder |-> "", folderStructure |-> "namespaced", languages |-> languages]

\* settings.languages = languages
withLanguages(s, languages) == [s EXCEPT !.languages = languages]

\* settings.languages.filter((l) => l.code !== code)
withoutLanguage(languages, code) == SelectSeq(languages, LAMBDA l : l.code # code)

\* translations:removeLanguage
removeLanguage(S, code) ==
    LET s == loadSettings(S)
    IN saveSettings(S, withLanguages(s, withoutLanguage(s.languages, code)))

\* translations:removeFile
removeFile(S, code, absolutePath) ==
    LET s == loadSettings(S)
        li == FindLang(s.languages, code)
    IN IF li = 0 THEN saveSettings(S, s)
       ELSE LET files == SelectSeq(s.languages[li].files,
                                   LAMBDA f : f.absolutePath # absolutePath)
                s1 == [s EXCEPT !.languages[li].files = files]
            IN saveSettings(S,
                  IF Len(files) = 0
                  THEN withLanguages(s1, withoutLanguage(s1.languages, code))
                  ELSE s1)

----------------------------------------------------------------------------
(* The catalog: initial states and operations *)

\* the settings before any import
FreshSettings == [rootFolder |-> "", folderStructure |-> "namespaced", languages |-> <<>>]

EmptyDisk == [p \in AllPaths |-> Absent]

DocAx == Obj(<<Entry(ka, Str("x"))>>)
\* { "constructor": "x" }
DocInherited == Obj(<<Entry(<<"constructor">>, Str("x"))>>)
DocAbx == Obj(<<Entry(ka, Obj(<<Entry(kb, Str("x"))>>))>>)
DocArr == Obj(<<Entry(ka, Arr(<<Num(1)>>))>>)
\* { "c": [ { "b": "y", "a": "x" } ] }
DocArrObj ==
    Obj(<<Entry(kc, Arr(<<Obj(<<Entry(kb, Str("y")), Entry(ka, Str("x"))>>)>>))>>)
DocUnsorted == Obj(<<Entry(kb, Str("y")), Entry(ka, Obj(<<Entry(kb, Str(""))>>))>>)

\* a root with locale subdirectories: en-US/common.json, en-US/menu.json and
\* possibly fr-FR/common.json
NamespacedDisks ==
    {[EmptyDisk EXCEPT ![Path("r", "en-US", "common")] = c[1],
                       ![Path("r", "fr-FR", "common")] = c[2],
                       ![Path("r", "en-US", "menu")] = Json(Obj(<<>>))] :
        c \in {Malformed, Json(Obj(<<>>)), Json(DocAx), Json(DocAbx), Json(DocArr)}
              \X {Absent, Json(DocAx), Json(DocUnsorted)}}

\* a root with <locale>.json files only
FlatDisks ==
    {[EmptyDisk EXCEPT ![Path("r", "", "en-US")] = c[1],
                       ![Path("r", "", "fr-FR")] = c[2]] :
        c \in {Json(Obj(<<>>)), Json(DocAbx)} \X {Absent, Json(DocAx)}}

\* a root in which en-US has a key that fr-FR inherits and does not have:
\* en-US/common.json, en-US/menu.json and fr-FR/common.json
InheritedDisks ==
    {[EmptyDisk EXCEPT ![Path("r", "en-US", "common")] = Json(DocInherited),
                       ![Path("r", "fr-FR", "common")] = Json(Obj(<<>>)),
                       ![Path("r", "en-US", "menu")] = Json(DocInherited)]}

InitDisks == NamespacedDisks \cup FlatDisks \cup InheritedDisks

\* the arguments the operations are called with
NsArgs == {"common", "default"}
LangArgs == {"en-US", "fr-FR"}
KeyArgs == {ka, kab}
\* addKey is also called with a name every object inherits
AddKeyArgs == KeyArgs \cup {<<"constructor">>}
ValueArgs == {"v"}
Bodies ==
    {Body("invalid", <<>>, ""), Body("null", <<>>, ""), Body("nokey", <<>>, "")}
    \cup {Body("key", ka, ""), Body("key", kab, ""), Body("key", kab, "d")}
Requests ==
    {Request(m, FALSE, "", "", Body("invalid", <<>>, "")) : m \in {"OPTIONS", "GET", "POST"}}
    \cup {Request(m, TRUE, "en-US", "common", Body("key", ka, "")) : m \in {"OPTIONS", "GET"}}
    \cup {Request("POST", TRUE, "en-US", "common", b) : b \in Bodies}
    \cup {Request("POST", TRUE, "en-US", "default", Body("nokey", <<>>, ""))}
    \cup {Request("POST", TRUE, x[1], x[2], x[3]) :
             x \in LangArgs \X NsArgs \X {Body("key", kab, "")}}

NoOp == [op |-> "none", args |-> <<>>, status |-> 0, notified |-> <<>>,
         changed |-> FALSE]

Current == State(settings, disk)

\* the record of an operation: what ran, on which state (pre), whether it changed
\* the state, with which outcome, and what ran before it
Done(op, args, post, status, cors, notified, result, thrown) ==
    [op |-> op, args |-> args, pre |-> Current, changed |-> post # Current,
     status |-> status, cors |-> cors, notified |-> notified, result |-> result,
     thrown |-> thrown,
     prev |-> [op |-> last.op, args |-> last.args, status |-> last.status,
               notified |-> last.notified, changed |-> last.changed]]

\* the record before any operation, on the state S
NoneDone(op, S) ==
    [op |-> op, args |-> <<>>, pre |-> S, changed |-> FALSE, status |-> 0,
     cors |-> FALSE, notified |-> <<>>, result |-> <<>>, thrown |-> FALSE,
     prev |-> NoOp]


CatalogInit ==
    /\ disk \in InitDisks
    /\ settings \in {importFolder(State(FreshSettings, disk), "r").settings}
                    \cup (IF disk \in FlatDisks THEN {FreshSettings} ELSE {})
    /\ last = NoneDone("none", State(settings, disk))
    /\ steps = 0

\* translations:addKey invoked with a key of `keys` and handled
AddKeyOf(keys) ==
    /\ steps < MaxSteps
    /\ \E ns \in NsArgs, key \in keys :
         LET S == addKey(Current, ns, key)
         IN /\ settings' = S.settings
            /\ disk' = S.disk
            /\ last' = Done("addKey", [ns |-> ns, key |-> key], S,
                            0, FALSE, <<>>, <<>>, FALSE)
    /\ steps' = steps + 1

AddKey == AddKeyOf(AddKeyArgs)

UpdateKey ==
    /\ steps < MaxSteps
    /\ \E ns \in NsArgs, key \in KeyArgs, lang \in LangArgs, value \in ValueArgs :
         LET S == updateKey(Current, ns, key, lang, value)
         IN /\ settings' = S.settings
            /\ disk' = S.disk
            /\ last' = Done("updateKey",
                            [ns |-> ns, key |-> key, lang |-> lang, value |-> value],
                            S, 0, FALSE, <<>>, <<>>, FALSE)
    /\ steps' = steps + 1

RemoveKey ==
    /\ steps < MaxSteps
    /\ \E ns \in NsArgs, key \in KeyArgs :
         LET r == removeKey(Current, ns, key)
         IN /\ settings' = r.S.settings
            /\ disk' = r.S.disk
            /\ last' = Done("removeKey", [ns |-> ns, key |-> key], r.S,
                            0, FALSE, <<>>, <<>>, r.thrown)
    /\ steps' = steps + 1

ReadAll ==
    /\ steps < MaxSteps
    /\ last' = Done("readAll", <<>>, Current, 0, FALSE, <<>>, readAll(Current), FALSE)
    /\ steps' = steps + 1
    /\ UNCHANGED <<settings, disk>>

\* no request is waiting for its body
NoRequest == [req |-> Request("none", FALSE, "", "", Body("none", <<>>, "")), res |-> {}]

\* handleRequest up to its return: the headers are set, then the request is
\* answered at once, or the "data" and "end" listeners of a POST on
\* /locales/<lang>/<namespace> are registered and the response stays open;
\* one request is open at a time
Handle(reqs) ==
    /\ steps < MaxSteps
    /\ pending = NoRequest
    /\ \E req \in reqs :
         IF registersEnd(req)
         THEN /\ pending' = [req |-> req, res |-> setCors(req)]
              /\ UNCHANGED <<settings, disk, last>>
         ELSE LET r == answerAtOnce(Current, req, setCors(req))
              IN /\ last' = Done("http", req, r.S, r.status, AllowOrigin \in r.headers,
                                 r.notified, <<>>, FALSE)
                 /\ UNCHANGED <<settings, disk, pending>>
    /\ steps' = steps + 1
    /\ UNCHANGED home

HandleRequest == Handle(Requests)

\* the requests of the runs with the home view: those that register an "end"
\* callback and carry a key
PostRequests == {req \in Requests : registersEnd(req) /\ req.body.kind = "key"}

HandlePost == Handle(PostRequests)

\* the "end" callback of the request received: the body is parsed, the settings
\* loaded, the files written and the response sent, on the state of that time
RequestEnd ==
    /\ pending # NoRequest
    /\ LET r == intakeEnd(Current, pending.req, pending.res)
       IN /\ settings' = r.S.settings
          /\ disk' = r.S.disk
          /\ last' = Done("http", pending.req, r.S, r.status, AllowOrigin \in r.headers,
                          r.notified, <<>>, FALSE)
    /\ pending' = NoRequest
    /\ UNCHANGED <<steps, home>>

\* the folders imported in the runs of the configuration operations: empty, one
\* locale directory, two locale directories with different namespaces, locale
\* files only, a locale directory next to a locale file, and a key that is the
\* name of an inherited member in one of two languages
ConfigDisks ==
    {EmptyDisk,
     [EmptyDisk EXCEPT ![Path("r", "en-US", "common")] = Json(DocAx)],
     [EmptyDisk EXCEPT ![Path("r", "en-US", "common")] = Json(DocAx),
                       ![Path("r", "fr-FR", "menu")] = Json(Obj(<<>>))],
     [EmptyDisk EXCEPT ![Path("r", "", "en-US")] = Json(DocAbx),
                       ![Path("r", "", "fr-FR")] = Json(DocAx)],
     [EmptyDisk EXCEPT ![Path("r", "en-US", "common")] = Json(DocAx),
                       ![Path("r", "", "fr-FR")] = Json(DocAx)],
     [EmptyDisk EXCEPT ![Path("r", "en-US", "common")] = Json(DocArrObj)],
     [EmptyDisk EXCEPT ![Path("r", "en-US", "common")] = Json(DocInherited),
                       ![Path("r", "fr-FR", "common")] = Json(Obj(<<>>))]}

\* the application before the first import, or with the folder imported
ConfigInit ==
    /\ disk \in ConfigDisks
    /\ settings \in {FreshSettings, importFolder(State(FreshSettings, disk), "r").settings}
    /\ last = NoneDone("none", State(settings, disk))
    /\ steps = 0

\* the absolutePath of every File record of the settings
RecordedPaths(s) ==
    UNION {{s.languages[i].files[j].absolutePath : j \in 1..Len(s.languages[i].files)} :
             i \in 1..Len(s.languages)}

\* translations:importFolder: the dialog is cancelled or returns a folder
ImportFolder ==
    /\ steps < MaxSteps
    /\ \E cancelled \in BOOLEAN, root \in Roots :
         LET S == IF cancelled THEN Current ELSE importFolder(Current, root)
         IN /\ settings' = S.settings
            /\ disk' = S.disk
            /\ last' = Done("import", [cancelled |-> cancelled, root |-> root], S,
                            0, FALSE, <<>>,
                            IF cancelled THEN <<>> ELSE <<S.settings>>, FALSE)
    /\ steps' = steps + 1

\* a reply of the main process on its way to the window: the channel invoked,
\* the arguments of the invoke, what the handler returned and whether it threw
Reply(channel, args, result, thrown) ==
    [channel |-> channel, args |-> args, result |-> result, thrown |-> thrown]

\* the home view: its state langCodes and namespaces, the channels loadData
\* has invoked and the main process has still to handle, in the order of the
\* invokes, and the replies to the invokes of the view, in the order the main
\* process sent them
Home(langCodes, namespaces, invoked, replies) ==
    [langCodes |-> langCodes, namespaces |-> namespaces, invoked |-> invoked,
     replies |-> replies]
NoHome == Home(<<>>, <<>>, <<>>, <<>>)

\* the rows the view renders: useMemo over namespaces and langCodes
Rows == flatRows(home.namespaces, home.langCodes)

\* the reply of `channel` is the next to reach the view
Arrives(channel) == Len(home.replies) > 0 /\ home.replies[1].channel = channel

\* the invoke of `channel` is the next the main process handles
Waits(channel) == Len(home.invoked) > 0 /\ home.invoked[1] = channel

\* the result of readAll holds a function, which the reply to the window
\* cannot carry
holdsFunction(result) ==
    \E n \in 1..Len(result) :
       \E j \in 1..Len(result[n].keys) :
          \E x \in 1..Len(result[n].keys[j].values) :
             result[n].keys[j].values[x].v = Fn

\* setNamespaces of handleUpdateValue:
\* {...k.values, [langCode]: value} on the key `key` of the namespace
patchValue(namespaces, namespace, key, langCode, value) ==
    [i \in 1..Len(namespaces) |->
        IF namespaces[i].namespace = namespace
        THEN [namespaces[i] EXCEPT !.keys =
                [j \in 1..Len(@) |->
                    IF @[j].key = key
                    THEN [@[j] EXCEPT !.values = Put(@, langCode, Str(value))]
                    ELSE @[j]]]
        ELSE namespaces[i]]

\* k.key !== key
otherKey(k, key) == k.key # key

\* setNamespaces of handleRemoveKey: ns.keys.filter((k) => k.key !== key)
patchRemoved(namespaces, namespace, key) ==
    [i \in 1..Len(namespaces) |->
        IF namespaces[i].namespace = namespace
        THEN [namespaces[i] EXCEPT !.keys = SelectSeq(@, LAMBDA k : otherKey(k, key))]
        ELSE namespaces[i]]

\* loadData is called, on mount or on translations-changed: settings:get is
\* invoked
LoadData ==
    /\ steps < MaxSteps
    /\ home' = [home EXCEPT !.invoked = Append(@, "settings:get")]
    /\ steps' = steps + 1
    /\ UNCHANGED <<settings, disk, last, pending>>

\* the main process handles a settings:get of loadData; the reply is on its way
LoadDataGet ==
    /\ Waits("settings:get")
    /\ LET s == loadSettings(Current)
           codes == [i \in 1..Len(s.languages) |-> s.languages[i].code]
       IN home' = [home EXCEPT !.invoked = Tail(@),
                               !.replies = Append(@, Reply("settings:get", <<>>, codes, FALSE))]
    /\ UNCHANGED <<settings, disk, last, steps, pending>>

\* the reply of settings:get reaches loadData: setLangCodes, then
\* translations:readAll is invoked, or setNamespaces([]) without a language
LoadDataSettings ==
    /\ Arrives("settings:get")
    /\ LET codes == home.replies[1].result
       IN home' = IF Len(codes) > 0
                  THEN [home EXCEPT !.langCodes = codes,
                                    !.invoked = Append(@, "translations:readAll"),
                                    !.replies = Tail(@)]
                  ELSE [home EXCEPT !.langCodes = codes, !.namespaces = <<>>,
                                    !.replies = Tail(@)]
    /\ UNCHANGED <<settings, disk, last, steps, pending>>

\* the main process handles a translations:readAll of loadData; the reply is on
\* its way, a rejection where the result cannot be sent
LoadDataInvoke ==
    /\ Waits("translations:readAll")
    /\ LET result == readAll(Current)
           reply == IF holdsFunction(result)
                    THEN Reply("translations:readAll", <<>>, <<>>, TRUE)
                    ELSE Reply("translations:readAll", <<>>, result, FALSE)
       IN home' = [home EXCEPT !.invoked = Tail(@), !.replies = Append(@, reply)]
    /\ UNCHANGED <<settings, disk, last, steps, pending>>

\* the reply of translations:readAll reaches loadData: setNamespaces, unless the
\* invoke was rejected
LoadDataReadAll ==
    /\ Arrives("translations:readAll")
    /\ LET r == home.replies[1]
       IN home' = [home EXCEPT !.namespaces = IF r.thrown THEN @ ELSE r.result,
                               !.replies = Tail(@)]
    /\ UNCHANGED <<settings, disk, last, steps, pending>>

\* the keys entered in the add-key modal of the view
ModalKeys == {kab}

\* handleAddKey up to its await: translations:addKey is invoked and handled; the
\* reply is on its way
HandleAddKey ==
    /\ AddKeyOf(ModalKeys)
    /\ home' = [home EXCEPT !.replies =
                   Append(@, Reply("translations:addKey", last'.args, <<>>, last'.thrown))]
    /\ UNCHANGED pending

\* the reply of translations:addKey reaches handleAddKey: loadData is called,
\* unless the invoke was rejected
HandleAddKeyReply ==
    /\ Arrives("translations:addKey")
    /\ LET r == home.replies[1]
       IN home' = [home EXCEPT
                     !.invoked = IF r.thrown THEN @ ELSE Append(@, "settings:get"),
                     !.replies = Tail(@)]
    /\ UNCHANGED <<settings, disk, last, steps, pending>>

\* handleUpdateValue of the home view up to its await: translations:updateKey
\* is invoked and handled; the reply is on its way
HandleUpdateValue ==
    /\ UpdateKey
    /\ home' = [home EXCEPT !.replies =
                   Append(@, Reply("translations:updateKey", last'.args, <<>>, last'.thrown))]
    /\ UNCHANGED pending

\* the reply of translations:updateKey reaches handleUpdateValue: setNamespaces
HandleUpdateValueReply ==
    /\ Arrives("translations:updateKey")
    /\ LET r == home.replies[1]
       IN home' = [home EXCEPT
                     !.namespaces = IF r.thrown THEN @
                                    ELSE patchValue(@, r.args.ns, r.args.key, r.args.lang,
                                                    r.args.value),
                     !.replies = Tail(@)]
    /\ UNCHANGED <<settings, disk, last, steps, pending>>

\* handleRemoveKey of the home view up to its await: translations:removeKey is
\* invoked and handled; the reply is on its way
HandleRemoveKey ==
    /\ RemoveKey
    /\ home' = [home EXCEPT !.replies =
                   Append(@, Reply("translations:removeKey", last'.args, <<>>, last'.thrown))]
    /\ UNCHANGED pending

\* the reply of translations:removeKey reaches handleRemoveKey: setNamespaces,
\* unless the invoke was rejected
HandleRemoveKeyReply ==
    /\ Arrives("translations:removeKey")
    /\ LET r == home.replies[1]
       IN home' = [home EXCEPT
                     !.namespaces = IF r.thrown THEN @
                                    ELSE patchRemoved(@, r.args.ns, r.args.key),
                     !.replies = Tail(@)]
    /\ UNCHANGED <<settings, disk, last, steps, pending>>

AddLanguage ==
    /\ steps < MaxSteps
    /\ \E code \in LangArgs :
         LET S == addLanguage(Current, code)
         IN /\ settings' = S.settings
            /\ disk' = S.disk
            /\ last' = Done("addLanguage", [code |-> code], S, 0, FALSE, <<>>,
                            <<S.settings>>, FALSE)
    /\ steps' = steps + 1

RemoveLanguage ==
    /\ steps < MaxSteps
    /\ \E code \in LangArgs :
         LET S == removeLanguage(Current, code)
         IN /\ settings' = S.settings
            /\ disk' = S.disk
            /\ last' = Done("removeLanguage", [code |-> code], S, 0, FALSE, <<>>,
                            <<S.settings>>, FALSE)
    /\ steps' = steps + 1

RemoveFile ==
    /\ steps < MaxSteps
    /\ \E code \in LangArgs, path \in RecordedPaths(settings) :
         LET S == removeFile(Current, code, path)
         IN /\ settings' = S.settings
            /\ disk' = S.disk
            /\ last' = Done("removeFile", [code |-> code, path |-> path], S, 0, FALSE,
                            <<>>, <<S.settings>>, FALSE)
    /\ steps' = steps + 1

----------------------------------------------------------------------------
(* Server life cycle: part_002:12-13, 99-137 *)

\* let currentPort = 5874
DefaultPort == 5874
\* server = null
NoServer == 0
ServerIds == 1..MaxServers
\* the port argument of start: 0 stands for undefined
PortArgs == {0, DefaultPort, DefaultPort + 1}

\* an http.Server: st is "none" (not created), "pending" (listen called, not yet
\* bound), "listening", "failed" (the bind failed) or "closed"; closeCb holds
\* when a callback of close() is still to run; event is the event the bind has
\* queued for the next tick and whose listener has not run yet: "listening",
\* "error" or "none"
Listener(st, port, closeCb, event) ==
    [st |-> st, port |-> port, closeCb |-> closeCb, event |-> event]
NoListener == Listener("none", 0, FALSE, "none")

Srv(srv, port, ls) == [server |-> srv, currentPort |-> port, listeners |-> ls]
CurrentSrv == Srv(server, currentPort, listeners)

\* server?.listening
isListening(M) == M.server # NoServer /\ M.listeners[M.server].st = "listening"

\* getStatus()
getStatus(M) == [running |-> M.server # NoServer /\ isListening(M), port |-> M.currentPort]

\* mutant of startReturnsStatus: start never takes the early return
startAlwaysBinds(M) == FALSE

\* startServer up to the call of listen: whether it returns the current status
startReturnsStatus(M) == isListening(M)

\* if (port !== undefined) currentPort = port
startPort(M, port) == IF port # 0 THEN port ELSE M.currentPort

\* mutant of onListenError: the failed server stays referenced
onListenErrorKeeps(M) == M

\* the "error" handler of startServer: server = null
onListenError(M) == [M EXCEPT !.server = NoServer]

\* the callback of server.close: server = null
onClosed(M) == [M EXCEPT !.server = NoServer]

NoCall == [op |-> "none", port |-> 0, id |-> 0, outcome |-> "none",
           result |-> [running |-> FALSE, port |-> 0],
           pre |-> Srv(NoServer, DefaultPort, [i \in ServerIds |-> NoListener])]

Call(op, port, id, outcome, result) ==
    [op |-> op, port |-> port, id |-> id, outcome |-> outcome, result |-> result,
     pre |-> CurrentSrv]

ServerInit ==
    /\ server = NoServer
    /\ currentPort = DefaultPort
    /\ listeners = [i \in ServerIds |-> NoListener]
    /\ srvLast = NoCall

\* startServer(port), up to the return of the Promise executor
StartServer ==
    \E port \in PortArgs :
       IF startReturnsStatus(CurrentSrv)
       THEN /\ srvLast' = Call("start", port, 0, "resolved", getStatus(CurrentSrv))
            /\ UNCHANGED <<server, currentPort, listeners>>
       ELSE \E id \in ServerIds :
              /\ listeners[id].st = "none"
              /\ \A j \in 1..(id - 1) : listeners[j].st # "none"
              /\ currentPort' = startPort(CurrentSrv, port)
              /\ server' = id
              /\ listeners' = [listeners EXCEPT ![id] = Listener("pending", currentPort', FALSE, "none")]
              /\ srvLast' = Call("start", port, id, "pending", getStatus(CurrentSrv))

\* server.listen, the bind: a pending server gets its port, server.listening
\* turns true and the "listening" event is queued for the next tick
Bind ==
    \E id \in ServerIds :
       /\ listeners[id].st = "pending"
       /\ \A j \in ServerIds :
            listeners[j].st = "listening" => listeners[j].port # listeners[id].port
       /\ listeners' = [listeners EXCEPT ![id].st = "listening", ![id].event = "listening"]
       /\ srvLast' = Call("bind", 0, id, "none", getStatus(CurrentSrv))
       /\ UNCHANGED <<server, currentPort>>

\* server.listen, the bind fails: the "error" event is queued for the next tick
BindError ==
    \E id \in ServerIds :
       /\ listeners[id].st = "pending"
       /\ listeners' = [listeners EXCEPT ![id].st = "failed", ![id].event = "error"]
       /\ srvLast' = Call("bindError", 0, id, "none", getStatus(CurrentSrv))
       /\ UNCHANGED <<server, currentPort>>

\* the callback of listen runs, on a server that is still bound:
\* resolve(getStatus()) with the module's state of that moment
ListenOk ==
    \E id \in ServerIds :
       /\ listeners[id].event = "listening"
       /\ listeners[id].st = "listening"
       /\ listeners' = [listeners EXCEPT ![id].event = "none"]
       /\ srvLast' = Call("listening", 0, id, "resolved", getStatus(CurrentSrv))
       /\ UNCHANGED <<server, currentPort>>

\* the "error" handler of a server whose bind failed runs
ListenError ==
    \E id \in ServerIds :
       /\ listeners[id].event = "error"
       /\ listeners' = [listeners EXCEPT ![id].event = "none"]
       /\ server' = onListenError(CurrentSrv).server
       /\ srvLast' = Call("listenError", 0, id, "rejected", getStatus(CurrentSrv))
       /\ UNCHANGED currentPort

\* stopServer(), up to the return of the Promise executor
StopServer ==
    IF server = NoServer
    THEN /\ srvLast' = Call("stop", 0, 0, "resolved", getStatus(CurrentSrv))
         /\ UNCHANGED <<server, currentPort, listeners>>
    ELSE /\ listeners' = [listeners EXCEPT
                            ![server].st = IF @ = "listening" THEN "closed" ELSE @,
                            ![server].closeCb = TRUE]
         /\ srvLast' = Call("stop", 0, server, "pending", getStatus(CurrentSrv))
         /\ UNCHANGED <<server, currentPort>>

\* the callback of server.close runs
CloseDone ==
    \E id \in ServerIds :
       /\ listeners[id].closeCb
       /\ listeners' = [listeners EXCEPT ![id].closeCb = FALSE]
       /\ server' = onClosed(CurrentSrv).server
       /\ srvLast' = Call("closed", 0, id, "resolved",
                          getStatus(Srv(server', currentPort, listeners')))
       /\ UNCHANGED currentPort

\* server:status
Status ==
    /\ srvLast' = Call("status", 0, 0, "resolved", getStatus(CurrentSrv))
    /\ UNCHANGED <<server, currentPort, listeners>>

----------------------------------------------------------------------------
(* The handlers on the event loop: translations.ts:284-324, part_002:21-97 *)

\* the two sources of mutations: the intake server and the UI
TaskIds == {"http", "ui"}
NoTask == "none"

\* a task: the operation and its arguments, the position in its handler (pc),
\* and the handler's locals: the settings object it loaded (s), the index of the
\* language of the loop (i), whether it is in a loop over the languages or
\* works on one language (phase), the file resolved (path), the document read
\* (json), addedKeys, the status answered, and whether the handler threw
IdleTask ==
    [op |-> "none", args |-> <<>>, pc |-> "idle", s |-> FreshSettings, i |-> 0,
     phase |-> "loop", path |-> NoFile.absolutePath, json |-> NoDoc,
     addedKeys |-> <<>>, status |-> 0, thrown |-> FALSE, overlapped |-> FALSE]

Queued(op, args) == [IdleTask EXCEPT !.op = op, !.args = args, !.pc = "queued"]

\* mutant of yieldPoint: control can pass to another handler after any statement
yieldsAlways(pc) == TRUE

\* where a handler gives the call stack back: the handlers and the "end"
\* callback hold no await, so only before they start and after they return
yieldPoint(pc) == pc \in {"idle", "queued", "done"}

\* the key a task works on
taskKey(T) == IF T.op = "http" THEN T.args.body.key ELSE T.args.key

\* the handler returns
finish(T) == [T EXCEPT !.pc = "done", !.status = IF T.op = "http" THEN 200 ELSE 0]

\* the handler throws: the call is rejected, the request answered with 400
throw(T) == [T EXCEPT !.pc = "done", !.thrown = TRUE,
                      !.status = IF T.op = "http" THEN 400 ELSE 0]

\* the loop condition at language i; after the loop the intake goes on with the
\* default value when there is one
enter(T) ==
    IF T.phase = "loop" /\ T.i > Len(T.s.languages)
    THEN IF T.op = "http" /\ T.args.body.dv # ""
         THEN [T EXCEPT !.phase = "one", !.pc = "resolve"]
         ELSE finish(T)
    ELSE [T EXCEPT !.pc = "resolve"]

\* the end of an iteration, or of the statements on one language
leave(T) == IF T.phase = "one" THEN finish(T) ELSE enter([T EXCEPT !.i = @ + 1])

\* a step of a task on the state S: [T, S] afterwards
Stepped(T, S) == [T |-> T, S |-> S]

\* the handler starts: JSON.parse(body) and its destructuring for the intake,
\* then const settings = loadSettings()
stepBegin(T, S) ==
    IF T.op = "http" /\ T.args.body.kind \in {"invalid", "null"}
    THEN Stepped(throw(T), S)
    ELSE Stepped(enter([T EXCEPT !.s = loadSettings(S), !.i = 1,
                                 !.phase = IF T.op = "updateKey" THEN "one"
                                           ELSE "loop"]), S)

\* const file = ensureFile(settings, code, namespace) on the handler's settings
\* object, or lang.files.find(...) in removeKey; if (!file) continue / return
stepResolve(T, S) ==
    IF T.op = "removeKey"
    THEN LET files == T.s.languages[T.i].files
             fi == FindFile(files, T.args.ns)
         IN IF fi = 0 THEN Stepped(leave(T), S)
            ELSE Stepped([T EXCEPT !.path = files[fi].absolutePath, !.pc = "read"], S)
    ELSE LET code == IF T.phase = "one" THEN T.args.lang
                     ELSE T.s.languages[T.i].code
             r == ensureFile(State(T.s, S.disk), code, T.args.ns)
             T1 == [T EXCEPT !.s = r.S.settings]
             \* saveSettings(settings) runs when ensureFile added a File
             S1 == State(IF r.S.settings # T.s THEN r.S.settings ELSE S.settings,
                         r.S.disk)
         IN IF ~r.ok THEN Stepped(leave(T1), S1)
            ELSE Stepped([T1 EXCEPT !.path = r.file.absolutePath, !.pc = "read"], S1)

\* const json = readJsonFile(file.absolutePath)
stepRead(T, S) ==
    Stepped([T EXCEPT !.json = readJsonFile(S, T.path), !.pc = "write"], S)

\* the statements after the read, up to writeJsonFile(file.absolutePath, json)
stepWrite(T, S) ==
    IF T.op = "removeKey"
    THEN LET json == removeNestedKey(T.json, T.args.key)
         IN IF json = Thrown THEN Stepped(throw(T), S)
            ELSE Stepped(leave(T), writeJsonFile(S, T.path, json))
    ELSE IF T.phase = "one"
    THEN LET value == IF T.op = "updateKey" THEN T.args.value ELSE T.args.body.dv
         IN Stepped(leave(T),
                    writeJsonFile(S, T.path, setNestedValue(T.json, taskKey(T), value)))
    ELSE IF T.op = "http" /\ T.args.body.kind = "nokey"
    THEN Stepped(throw(T), S)
    ELSE IF addKeyWrites(flattenJson(T.json, <<>>), taskKey(T))
    THEN Stepped(leave([T EXCEPT !.addedKeys =
                            IF T.op = "http" THEN trackAdded(@, taskKey(T)) ELSE @]),
                 writeJsonFile(S, T.path, setNestedValue(T.json, taskKey(T), "")))
    ELSE Stepped(leave(T), S)

\* the next statements of a task, by its position
step(T, S) ==
    CASE T.pc = "queued" -> stepBegin(T, S)
      [] T.pc = "resolve" -> stepResolve(T, S)
      [] T.pc = "read" -> stepRead(T, S)
      [] T.pc = "write" -> stepWrite(T, S)

\* the requests and the calls issued
UiCalls ==
    {Queued("addKey", [ns |-> x[1], key |-> x[2]]) : x \in NsArgs \X KeyArgs}
    \cup {Queued("removeKey", [ns |-> x[1], key |-> x[2]]) : x \in NsArgs \X KeyArgs}
    \cup {Queued("updateKey", [ns |-> x[1], key |-> x[2], lang |-> x[3], value |-> x[4]]) :
            x \in NsArgs \X KeyArgs \X LangArgs \X ValueArgs}

LoopOff == tasks = [t \in TaskIds |-> IdleTask] /\ running = NoTask

TurnOff == pending = NoRequest /\ home = NoHome

\* a request arrives: handleRequest answers it at once, or registers the "data"
\* and "end" listeners of a POST on a matching url
Receive ==
    /\ tasks["http"].pc = "idle"
    /\ running = NoTask
    /\ \E req \in Requests :
         LET T == Queued("http", req)
         IN tasks' = [tasks EXCEPT !["http"] =
                        IF req.method = "POST" /\ req.match THEN T
                        ELSE [T EXCEPT !.pc = "done",
                                       !.status = handleRequest(Current, req).status]]
    /\ UNCHANGED <<settings, disk, last, steps, running>>

\* the UI invokes translations:addKey, updateKey or removeKey
Invoke ==
    /\ tasks["ui"].pc = "idle"
    /\ \E T \in UiCalls : tasks' = [tasks EXCEPT !["ui"] = T]
    /\ UNCHANGED <<settings, disk, last, steps, running>>

\* the event loop runs the next statements of a handler: one that is on the
\* call stack, or any pending one when the stack is empty
Run(t) ==
    /\ tasks[t].pc \in {"queued", "resolve", "read", "write"}
    /\ running \in {NoTask, t}
    /\ LET r == step(tasks[t], Current)
           u == CHOOSE x \in TaskIds : x # t
           T == IF tasks[t].pc = "queued"
                THEN [r.T EXCEPT !.overlapped = (tasks[u].pc = "queued")]
                ELSE r.T
       IN /\ tasks' = [tasks EXCEPT ![t] = T]
          /\ settings' = r.S.settings
          /\ disk' = r.S.disk
          /\ running' = IF yieldPoint(T.pc) THEN NoTask ELSE t
    /\ UNCHANGED <<last, steps>>

RunHttp == Run("http")
RunUi == Run("ui")

----------------------------------------------------------------------------
(* Specifications *)

CodecOff == cDoc = NoDoc /\ cKey = <<>> /\ cOut = NoDoc /\ cOp = "off"

CatalogOff ==
    /\ settings = FreshSettings
    /\ disk = EmptyDisk
    /\ last = NoneDone("off", State(FreshSettings, EmptyDisk))
    /\ steps = 0

\* the catalog under the UI's calls and the intake's requests
Init == CatalogInit /\ ServerInit /\ CodecOff /\ LoopOff /\ TurnOff

Next ==
    \/ AddKey /\ UNCHANGED <<serverVars, codecVars, loopVars, turnVars>>
    \/ UpdateKey /\ UNCHANGED <<serverVars, codecVars, loopVars, turnVars>>
    \/ RemoveKey /\ UNCHANGED <<serverVars, codecVars, loopVars, turnVars>>
    \/ ReadAll /\ UNCHANGED <<serverVars, codecVars, loopVars, turnVars>>
    \/ HandleRequest /\ UNCHANGED <<serverVars, codecVars, loopVars>>
    \/ RequestEnd /\ UNCHANGED <<serverVars, codecVars, loopVars>>

Spec == Init /\ [][Next]_vars

\* the server under start, stop and status calls and the events of its sockets
InitServer == CatalogOff /\ ServerInit /\ CodecOff /\ LoopOff /\ TurnOff

NextServer ==
    \/ StartServer /\ UNCHANGED <<catalogVars, codecVars, loopVars, turnVars>>
    \/ Bind /\ UNCHANGED <<catalogVars, codecVars, loopVars, turnVars>>
    \/ BindError /\ UNCHANGED <<catalogVars, codecVars, loopVars, turnVars>>
    \/ ListenOk /\ UNCHANGED <<catalogVars, codecVars, loopVars, turnVars>>
    \/ ListenError /\ UNCHANGED <<catalogVars, codecVars, loopVars, turnVars>>
    \/ StopServer /\ UNCHANGED <<catalogVars, codecVars, loopVars, turnVars>>
    \/ CloseDone /\ UNCHANGED <<catalogVars, codecVars, loopVars, turnVars>>
    \/ Status /\ UNCHANGED <<catalogVars, codecVars, loopVars, turnVars>>

SpecServer == InitServer /\ [][NextServer]_vars

\* the codec functions on the documents and keys of CodecDocs and CodecKeys
InitCodec == CatalogOff /\ ServerInit /\ CodecInit /\ LoopOff /\ TurnOff

NextCodec ==
    \/ CodecRoundTrip /\ UNCHANGED <<catalogVars, serverVars, loopVars, turnVars>>
    \/ CodecRemove /\ UNCHANGED <<catalogVars, serverVars, loopVars, turnVars>>
    \/ CodecSet /\ UNCHANGED <<catalogVars, serverVars, loopVars, turnVars>>
    \/ CodecSort /\ UNCHANGED <<catalogVars, serverVars, loopVars, turnVars>>

SpecCodec == InitCodec /\ [][NextCodec]_vars

\* the intake and the UI issuing one mutation each, on the event loop
InitConc == CatalogInit /\ ServerInit /\ CodecOff /\ LoopOff /\ TurnOff

NextConc ==
    \/ Receive /\ UNCHANGED <<serverVars, codecVars, turnVars>>
    \/ Invoke /\ UNCHANGED <<serverVars, codecVars, turnVars>>
    \/ RunHttp /\ UNCHANGED <<serverVars, codecVars, turnVars>>
    \/ RunUi /\ UNCHANGED <<serverVars, codecVars, turnVars>>

SpecConc == InitConc /\ [][NextConc]_vars

\* every operation on the catalog, from before the first import
InitConfig == ConfigInit /\ ServerInit /\ CodecOff /\ LoopOff /\ TurnOff

NextConfig ==
    \/ ImportFolder /\ UNCHANGED <<serverVars, codecVars, loopVars, turnVars>>
    \/ AddLanguage /\ UNCHANGED <<serverVars, codecVars, loopVars, turnVars>>
    \/ RemoveLanguage /\ UNCHANGED <<serverVars, codecVars, loopVars, turnVars>>
    \/ RemoveFile /\ UNCHANGED <<serverVars, codecVars, loopVars, turnVars>>
    \/ ReadAll /\ UNCHANGED <<serverVars, codecVars, loopVars, turnVars>>
    \/ LoadData /\ UNCHANGED <<serverVars, codecVars, loopVars>>
    \/ LoadDataGet /\ UNCHANGED <<serverVars, codecVars, loopVars>>
    \/ LoadDataSettings /\ UNCHANGED <<serverVars, codecVars, loopVars>>
    \/ LoadDataInvoke /\ UNCHANGED <<serverVars, codecVars, loopVars>>
    \/ LoadDataReadAll /\ UNCHANGED <<serverVars, codecVars, loopVars>>
    \/ HandleAddKey /\ UNCHANGED <<serverVars, codecVars, loopVars>>
    \/ HandleAddKeyReply /\ UNCHANGED <<serverVars, codecVars, loopVars>>
    \/ HandleUpdateValue /\ UNCHANGED <<serverVars, codecVars, loopVars>>
    \/ HandleUpdateValueReply /\ UNCHANGED <<serverVars, codecVars, loopVars>>
    \/ HandleRemoveKey /\ UNCHANGED <<serverVars, codecVars, loopVars>>
    \/ HandleRemoveKeyReply /\ UNCHANGED <<serverVars, codecVars, loopVars>>
    \/ HandlePost /\ UNCHANGED <<serverVars, codecVars, loopVars>>
    \/ RequestEnd /\ UNCHANGED <<serverVars, codecVars, loopVars>>

SpecConfig == InitConfig /\ [][NextConfig]_vars

----------------------------------------------------------------------------
(* Properties of the codec *)

NoNode == [t |-> "absent", s |-> "", n |-> 0, b |-> FALSE, a |-> <<>>, e |-> <<>>]

RECURSIVE At(_, _)
\* the value at a path of own keys below v, NoNode where there is none
At(v, path) ==
    IF Len(path) = 0 THEN v
    ELSE IF v.t = "obj" /\ Has(v.e, path[1]) THEN At(Get(v.e, path[1]), Tail(path))
    ELSE NoNode

IsLeaf(v) == v.t \in {"str", "num", "bool", "null", "arr"}

\* the first i parts of a dotted key
Prefix(key, i) == SubSeq(Split(key), 1, i)

\* the dotted key names a leaf of the document, below plain objects only
LeafAt(doc, key) == IsLeaf(At(doc, Split(key)))

\* C6: removing a leaf key deletes the leaf; an ancestor on its path is removed
\* exactly when it and every ancestor between it and the leaf had no other child
\* (the pruning goes bottom-up and stops at the first ancestor that keeps a
\* child); no ancestor is left as an empty object; and in every ancestor that
\* stays, the properties outside the path are the same, in the same order.
C6_AncestorPruning ==
    (cOp = "remove" /\ LeafAt(cDoc, cKey)) =>
        LET n == Len(cKey)
            parts == Split(cKey)
        IN /\ cOut # Thrown
           /\ At(cOut, parts) = NoNode
           /\ \A i \in 1..(n - 1) :
                LET after == At(cOut, Prefix(cKey, i))
                IN /\ after = NoNode \/ (after.t = "obj" /\ Len(after.e) > 0)
                   /\ (after = NoNode) <=>
                        (\A j \in i..(n - 1) : Len(At(cDoc, Prefix(cKey, j)).e) = 1)
           /\ \A i \in 0..(n - 1) :
                LET before == At(cDoc, Prefix(cKey, i))
                    after == At(cOut, Prefix(cKey, i))
                IN after # NoNode =>
                     Del(after.e, parts[i + 1]) = Del(before.e, parts[i + 1])

\* the leaf a.b.c is removed from { a: { b: { c } } } and both ancestors go, or
\* from { a: { b: { c }, d } } and the pruning stops at a
C6_Witness ==
    /\ cOp = "remove"
    /\ cKey = <<"a", "b", "c">>
    /\ \/ /\ cDoc = Obj(<<Entry(ka, Obj(<<Entry(kb, Obj(<<Entry(kc, Str("x"))>>))>>))>>)
          /\ cOut = Obj(<<>>)
       \/ /\ cDoc = Obj(<<Entry(ka, Obj(<<Entry(kb, Obj(<<Entry(kc, Str("x"))>>)),
                                          Entry(kd, Str("y"))>>))>>)
          /\ cOut = Obj(<<Entry(ka, Obj(<<Entry(kd, Str("y"))>>))>>)

RECURSIVE OnlyScalarLeaves(_)
\* every leaf of the document is a string, a number or a boolean
OnlyScalarLeaves(v) ==
    IF v.t = "obj" THEN \A i \in 1..Len(v.e) : OnlyScalarLeaves(v.e[i].v)
    ELSE v.t \in {"str", "num", "bool"}

RECURSIVE NoEmptyObject(_)
\* no object below the root is empty
NoEmptyObject(v) ==
    v.t = "obj" =>
        \A i \in 1..Len(v.e) :
            /\ v.e[i].v.t = "obj" => Len(v.e[i].v.e) > 0
            /\ NoEmptyObject(v.e[i].v)

RECURSIVE NoDottedKey(_)
\* no property name holds a dot
NoDottedKey(v) ==
    v.t = "obj" => \A i \in 1..Len(v.e) : Len(v.e[i].k) = 1 /\ NoDottedKey(v.e[i].v)

RECURSIVE LeavesAsStrings(_)
\* the document with every leaf replaced by its string
LeavesAsStrings(v) ==
    IF v.t = "obj"
    THEN Obj([i \in 1..Len(v.e) |-> Entry(v.e[i].k, LeavesAsStrings(v.e[i].v))])
    ELSE Str(StringOf(v))

RECURSIVE SameUpToOrder(_, _)
\* equal documents, the order of the properties ignored
SameUpToOrder(x, y) ==
    IF x.t = "obj" /\ y.t = "obj"
    THEN /\ {x.e[i].k : i \in 1..Len(x.e)} = {y.e[i].k : i \in 1..Len(y.e)}
         /\ Len(x.e) = Len(y.e)
         /\ \A i \in 1..Len(x.e) : SameUpToOrder(x.e[i].v, Get(y.e, x.e[i].k))
    ELSE x = y

\* C7 as stated: for every document whose leaves are strings, numbers or
\* booleans, re-nesting its flattening gives the document back, leaves as
\* strings, key order ignored.
C7_RoundTrip ==
    (cOp = "roundtrip" /\ OnlyScalarLeaves(cDoc)) =>
        SameUpToOrder(cOut, LeavesAsStrings(cDoc))

\* C7 amended: the same, for the documents that in addition hold no empty
\* nested object and no property name with a dot.
C7_RoundTripAmended ==
    (cOp = "roundtrip" /\ OnlyScalarLeaves(cDoc) /\ NoEmptyObject(cDoc)
        /\ NoDottedKey(cDoc)) =>
        SameUpToOrder(cOut, LeavesAsStrings(cDoc))

\* a document of depth three with a number leaf has made the round trip
C7_Witness ==
    /\ cOp = "roundtrip"
    /\ OnlyScalarLeaves(cDoc) /\ NoEmptyObject(cDoc) /\ NoDottedKey(cDoc)
    /\ At(cDoc, <<ka, kb, kc>>) = Num(1)
    /\ At(cDoc, <<ka, kd>>) = Str("y")
    /\ At(cOut, <<ka, kb, kc>>) = Str("1")

----------------------------------------------------------------------------
(* Properties of the catalog *)

\* the languages configured in the state S
LangsOf(S) == S.settings.languages

\* the flattened content of the file at a path in the state S
FlatAt(S, path) == flattenJson(readJsonFile(S, path), <<>>)

\* C1: addKey(ns, key) leaves the value at `key` as it was in the file for ns of
\* every configured language whose file already held the flattened key.
C1_AddKeyKeepsValues ==
    last.op = "addKey" =>
        \A i \in 1..Len(LangsOf(last.pre)) :
            LET files == LangsOf(last.pre)[i].files
                fi == FindFile(files, last.args.ns)
            IN fi # 0 =>
                 LET path == files[fi].absolutePath
                     before == FlatAt(last.pre, path)
                     after == FlatAt(Current, path)
                 IN Has(before, last.args.key) =>
                      /\ Has(after, last.args.key)
                      /\ Get(after, last.args.key) = Get(before, last.args.key)

\* addKey("common", "a") ran where fr-FR held a = "x" and en-US lacked a: en-US
\* received the key and fr-FR kept its value
C1_Witness ==
    /\ last.op = "addKey"
    /\ last.args = [ns |-> "common", key |-> ka]
    /\ last.changed
    /\ last.pre.disk[Path("r", "fr-FR", "common")] = Json(DocAx)
    /\ ~Has(FlatAt(last.pre, Path("r", "en-US", "common")), ka)
    /\ Has(FlatAt(Current, Path("r", "en-US", "common")), ka)

\* C2: a second addKey(ns, key) right after the first leaves every file and the
\* language/File configuration as the first call left them.
C2_AddKeyIdempotent ==
    (last.op = "addKey" /\ last.prev.op = "addKey" /\ last.prev.args = last.args) =>
        Current = last.pre

\* the first of two equal addKey calls created a file or wrote a key
C2_Witness ==
    /\ last.op = "addKey" /\ last.prev.op = "addKey" /\ last.prev.args = last.args
    /\ last.prev.changed
    /\ Len(LangsOf(Current)) = 2
    /\ \A i \in 1..2 :
         LET fi == FindFile(LangsOf(Current)[i].files, last.args.ns)
         IN fi # 0 /\ Has(FlatAt(Current, LangsOf(Current)[i].files[fi].absolutePath),
                          last.args.key)

\* two POST requests in a row on the same url with the same body, which holds a key
TwoEqualPosts ==
    /\ last.op = "http" /\ last.prev.op = "http"
    /\ last.args = last.prev.args
    /\ last.args.method = "POST" /\ last.args.match
    /\ last.args.body.kind = "key"

\* C3: of two sequential POST requests carrying the same key, the first of which
\* registers the key (it is new to some language's file), only the first sends a
\* "keys received" notification: one in total, none for the second.
C3_OneNotification ==
    (TwoEqualPosts /\ Len(last.prev.notified) = 1) =>
        /\ Len(last.notified) = 0
        /\ Len(last.prev.notified) + Len(last.notified) = 1

\* C5: in every namespace readAll returns, each flattened key of any configured
\* language's file for the namespace is listed exactly once, and its values hold
\* one entry per configured language: the file's value where the language's file
\* has the key, null where the language has no File for the namespace or its
\* file lacks the key.
C5_AggregateComplete ==
    last.op = "readAll" =>
        LET langs == LangsOf(last.pre)
            codes == {langs[i].code : i \in 1..Len(langs)}
        IN \A n \in 1..Len(last.result) :
             LET nd == last.result[n]
                 FlatOfLang(i) ==
                     LET fi == FindFile(langs[i].files, nd.namespace)
                     IN IF fi = 0 THEN <<>>
                        ELSE FlatAt(last.pre, langs[i].files[fi].absolutePath)
             IN /\ \A i \in 1..Len(langs) :
                     \A m \in 1..Len(FlatOfLang(i)) :
                        Cardinality({j \in 1..Len(nd.keys) :
                                        nd.keys[j].key = FlatOfLang(i)[m].k}) = 1
                /\ \A j \in 1..Len(nd.keys) :
                     LET values == nd.keys[j].values
                     IN /\ Len(values) = Cardinality(codes)
                        /\ {values[x].k : x \in 1..Len(values)} = codes
                        /\ \A i \in 1..Len(langs) :
                             Get(values, langs[i].code) =
                                IF Has(FlatOfLang(i), nd.keys[j].key)
                                THEN Str(Get(FlatOfLang(i), nd.keys[j].key))
                                ELSE Null

\* readAll ran where en-US has a key in a namespace for which fr-FR, configured,
\* has no File: the key is listed with en-US's value and null for fr-FR
C5_Witness ==
    /\ last.op = "readAll"
    /\ \E n \in 1..Len(last.result) :
         /\ last.result[n].namespace = "default"
         /\ \E j \in 1..Len(last.result[n].keys) :
              last.result[n].keys[j] =
                 [key |-> ka,
                  values |-> <<Entry("en-US", Str("v")), Entry("fr-FR", Null)>>]

\* the status the claim gives a request
ClaimedStatus(req) ==
    IF req.method = "OPTIONS" THEN 204
    ELSE IF req.method # "POST" \/ ~req.match THEN 404
    ELSE IF req.body.kind = "invalid" THEN 400
    ELSE 200

\* C10: OPTIONS gets 204; any other request that is not a POST on a matching
\* path gets 404; a POST on a matching path gets 400 if its body is not valid
\* JSON and 200 otherwise.
C10_StatusCodes ==
    last.op = "http" => last.status = ClaimedStatus(last.args)

\* C11: a request answered with 400 leaves every translation file and the
\* settings as they were before it.
C11_RejectedLeavesCatalog ==
    (last.op = "http" /\ last.status = 400) => Current = last.pre

\* the request that ran last is a POST on a matching url with a key in its body
KeyPost == last.op = "http" /\ last.args.method = "POST" /\ last.args.match
           /\ last.args.body.kind = "key"

\* the flattened content, in the state S, of the file that language i of the
\* current settings has for the namespace of the request; empty without a File
FlatOfLang(S, i) ==
    LET files == LangsOf(Current)[i].files
        fi == FindFile(files, last.args.ns)
    IN IF fi = 0 THEN <<>> ELSE FlatAt(S, files[fi].absolutePath)

\* C12: after a POST answered with 200 that carries key k and a non-empty
\* default value d for a configured language L, with a root folder set, L's
\* file for the namespace holds k = d and every other configured language's file
\* for the namespace holds k, with "" where it did not hold k before.
C12_DefaultValue ==
    (/\ KeyPost /\ last.status = 200 /\ last.args.body.dv # ""
     /\ FindLang(LangsOf(last.pre), last.args.lang) # 0
     /\ last.pre.settings.rootFolder # "") =>
        \A i \in 1..Len(LangsOf(Current)) :
            LET k == last.args.body.key
                after == FlatOfLang(Current, i)
            IN /\ Has(after, k)
               /\ IF LangsOf(Current)[i].code = last.args.lang
                  THEN Get(after, k) = last.args.body.dv
                  ELSE ~Has(FlatOfLang(last.pre, i), k) => Get(after, k) = ""

\* the request put its key into the file of language i, which lacked it
Inserted(i) ==
    /\ ~Has(FlatOfLang(last.pre, i), last.args.body.key)
    /\ Has(FlatOfLang(Current, i), last.args.body.key)

\* C13: a request sends a "keys received" notification exactly when it put its
\* key into the file of at least one configured language, and the notification
\* then lists the key once.
C13_NotifiedIffInserted ==
    last.op = "http" =>
        /\ Len(last.notified) > 0 <=> \E i \in 1..Len(LangsOf(Current)) : Inserted(i)
        /\ Len(last.notified) > 0 =>
              last.notified = <<[namespace |-> last.args.ns,
                                 keys |-> <<last.args.body.key>>]>>

\* the state S has a language with the code
Configured(S, code) == \E i \in 1..Len(LangsOf(S)) : LangsOf(S)[i].code = code

\* the paths that hold a file in the state S
FilesOf(S) == {p \in AllPaths : S.disk[p].st # "absent"}

\* C18: where the language code is not configured or no root folder is set,
\* ensureFile returns no File and changes nothing, and an updateKey call writes
\* nothing, creates no file, leaves the settings as they were and does not throw.
C18_MissingConfigNoOp ==
    /\ \A code \in LangArgs, ns \in NsArgs :
          (~Configured(Current, code) \/ settings.rootFolder = "") =>
              /\ ~ensureFile(Current, code, ns).ok
              /\ ensureFile(Current, code, ns).S = Current
    /\ (/\ last.op = "updateKey"
        /\ ~Configured(last.pre, last.args.lang) \/ last.pre.settings.rootFolder = "") =>
          Current = last.pre /\ ~last.thrown

\* updateKey ran for fr-FR where only en-US is configured, under a root folder
C18_Witness ==
    /\ last.op = "updateKey" /\ last.args.lang = "fr-FR"
    /\ ~Configured(last.pre, "fr-FR") /\ Configured(last.pre, "en-US")
    /\ last.pre.settings.rootFolder = "r"
    /\ Current = last.pre

\* C19: removeKey leaves the settings as they were and creates no file;
\* languages without a File for the namespace are passed over.
C19_RemoveKeyCreatesNothing ==
    last.op = "removeKey" =>
        /\ settings = last.pre.settings
        /\ FilesOf(Current) = FilesOf(last.pre)
        /\ \A p \in AllPaths :
              (\A i \in 1..Len(LangsOf(last.pre)) :
                  LET files == LangsOf(last.pre)[i].files
                  IN \A j \in 1..Len(files) :
                        files[j].namespace = last.args.ns => files[j].absolutePath # p)
              => disk[p] = last.pre.disk[p]

\* removeKey rewrote the file of one language and passed over a configured
\* language that has no File for the namespace
C19_Witness ==
    /\ last.op = "removeKey" /\ last.changed
    /\ \E i \in 1..Len(LangsOf(last.pre)) :
          \A j \in 1..Len(LangsOf(last.pre)[i].files) :
              LangsOf(last.pre)[i].files[j].namespace # last.args.ns

\* C14: every response carries Access-Control-Allow-Origin, whatever its status.
C14_CorsOnEveryResponse ==
    last.op = "http" => last.status \in {200, 204, 400, 404} /\ last.cors

\* a request was answered with 400, with the header
C14_Witness ==
    /\ last.op = "http" /\ last.status = 400 /\ last.cors
    /\ last.prev.op = "http" /\ last.prev.status \in {204, 404}

\* C25: after addKey(ns, key) with a root folder set, every configured language
\* has a File for ns whose flattened content holds key, and readAll then lists
\* key under ns with a non-null value for every configured language.
C25_AddKeyReachesAll ==
    last.op = "addKey" /\ settings.rootFolder # "" =>
        /\ \A i \in 1..Len(LangsOf(Current)) :
              LET files == LangsOf(Current)[i].files
                  fi == FindFile(files, last.args.ns)
              IN /\ fi # 0
                 /\ Has(FlatAt(Current, files[fi].absolutePath), last.args.key)
        /\ LangsOf(Current) # <<>> =>
              \E n \in 1..Len(readAll(Current)) :
                 LET nd == readAll(Current)[n]
                 IN /\ nd.namespace = last.args.ns
                    /\ \E j \in 1..Len(nd.keys) :
                          /\ nd.keys[j].key = last.args.key
                          /\ \A x \in 1..Len(nd.keys[j].values) :
                                nd.keys[j].values[x].v # Null

\* C28: addKey(ns, key) leaves every flattened key other than key, of the file
\* for ns of every configured language, present with the value it had, also
\* when one of the two keys is a dot-path prefix of the other.
C28_AddKeyFrame ==
    last.op = "addKey" =>
        \A i \in 1..Len(LangsOf(last.pre)) :
            LET files == LangsOf(last.pre)[i].files
                fi == FindFile(files, last.args.ns)
            IN fi # 0 =>
                 LET before == FlatAt(last.pre, files[fi].absolutePath)
                     after == FlatAt(Current, files[fi].absolutePath)
                 IN \A m \in 1..Len(before) :
                      before[m].k # last.args.key =>
                        /\ Has(after, before[m].k)
                        /\ Get(after, before[m].k) = before[m].v

----------------------------------------------------------------------------
(* Properties of the language configuration *)

\* an import ran with a folder chosen in the dialog
ImportDone == last.op = "import" /\ ~last.args.cancelled

\* the locale subdirectories of a root that hold a .json file, and the
\* <locale>.json files of the root
LocaleDirs(S, root) ==
    {c \in SeqRange(LocaleNames) :
        \E n \in SeqRange(FileNames) : Path(root, c, n) \in FilesOf(S)}
LocaleFiles(S, root) ==
    {c \in SeqRange(LocaleNames) : Path(root, "", c) \in FilesOf(S)}

\* the codes configured, and the File records as <<code, namespace, path>>
CodesOf(s) == {s.languages[i].code : i \in 1..Len(s.languages)}
RecordsOf(s) ==
    UNION {{<<s.languages[i].code, s.languages[i].files[j].namespace,
              s.languages[i].files[j].absolutePath>> :
               j \in 1..Len(s.languages[i].files)} : i \in 1..Len(s.languages)}

\* C15: after an import the mode is namespaced, with the locale subdirectories
\* as languages, if a locale subdirectory holds a .json file (the <locale>.json
\* files of the root are then ignored); otherwise flat, with one language of
\* the single namespace "default" per <locale>.json file of the root, if there is
\* one; otherwise namespaced with no language.
C15_ImportModeDetection ==
    ImportDone =>
        LET dirs == LocaleDirs(last.pre, last.args.root)
            tops == LocaleFiles(last.pre, last.args.root)
        IN /\ dirs # {} =>
                /\ settings.folderStructure = "namespaced"
                /\ CodesOf(settings) = dirs
                /\ \A r \in RecordsOf(settings) : r[3].dir = r[1] /\ r[3].name = r[2]
           /\ dirs = {} /\ tops # {} =>
                /\ settings.folderStructure = "flat"
                /\ CodesOf(settings) = tops
                /\ \A i \in 1..Len(settings.languages) :
                      settings.languages[i].files =
                        <<File(Path(last.args.root, "", settings.languages[i].code),
                               "default")>>
           /\ dirs = {} /\ tops = {} =>
                /\ settings.folderStructure = "namespaced"
                /\ settings.languages = <<>>

\* a folder with a locale subdirectory next to a <locale>.json file was
\* imported: the file's locale is no language
C15_Witness ==
    /\ ImportDone
    /\ settings.folderStructure = "namespaced"
    /\ LocaleDirs(last.pre, last.args.root) # {}
    /\ LocaleFiles(last.pre, last.args.root) \ CodesOf(settings) # {}

\* the File records a scan of the root finds on the disk of S
Found(S, root) ==
    IF LocaleDirs(S, root) # {}
    THEN {<<p.dir, p.name, p>> : p \in {q \in FilesOf(S) : q.root = root /\ q.dir # ""}}
    ELSE {<<p.name, "default", p>> : p \in {q \in FilesOf(S) : q.root = root /\ q.dir = ""}}

\* no code is configured twice
UniqueCodes(s) ==
    \A i, j \in 1..Len(s.languages) :
        s.languages[i].code = s.languages[j].code => i = j

\* no language holds two File records of one path
UniqueFiles(s) ==
    \A i \in 1..Len(s.languages) : \A j, k \in 1..Len(s.languages[i].files) :
        s.languages[i].files[j].absolutePath = s.languages[i].files[k].absolutePath
            => j = k

\* C16: after a completed import the languages and File records are exactly
\* those the scan of the new root finds, whatever was configured before; a
\* cancelled import changes nothing.
C16_ImportReplaces ==
    /\ ImportDone =>
          /\ settings.rootFolder = last.args.root
          /\ RecordsOf(settings) = Found(last.pre, last.args.root)
          /\ UniqueCodes(settings) /\ UniqueFiles(settings)
          /\ \A i \in 1..Len(settings.languages) : settings.languages[i].files # <<>>
          /\ disk = last.pre.disk
    /\ last.op = "import" /\ last.args.cancelled => Current = last.pre

\* an import replaced a configuration that held File records and lacked a File
\* of the folder
C16_Witness ==
    /\ ImportDone /\ last.changed
    /\ RecordsOf(last.pre.settings) # {}
    /\ RecordsOf(settings) \ RecordsOf(last.pre.settings) # {}

\* C17: the root folder and the mode are changed by import only: every other
\* operation leaves both as they were.
C17_ModeAndRootFrame ==
    last.op \notin {"none", "import"} =>
        /\ settings.rootFolder = last.pre.settings.rootFolder
        /\ settings.folderStructure = last.pre.settings.folderStructure

\* a language was removed from a flat configuration
C17_Witness ==
    /\ last.op = "removeLanguage" /\ last.changed
    /\ settings.rootFolder = "r" /\ settings.folderStructure = "flat"
    /\ last.prev.op \in {"removeFile", "addLanguage", "http"}

\* C20: no two Language records of the settings have the same code.
C20_UniqueCodes == UniqueCodes(settings)

\* addLanguage was called with a code that is configured already
C20_Witness ==
    /\ last.op = "addLanguage"
    /\ last.args.code \in CodesOf(last.pre.settings)
    /\ Len(settings.languages) = 2

\* the namespaces derived from the File records of all languages
NamespacesOf(s) == {r[2] : r \in RecordsOf(s)}

\* the operations run so far are all among ops
OnlyOps(ops) == last.op \in ops \cup {"none"} /\ last.prev.op \in ops \cup {"none"}

\* C21: while the mode is flat, after addKey, updateKey, addLanguage and intake
\* operations with any namespace argument, the namespaces derived from the File
\* records are none or "default" alone, and readAll returns at most that one.
C21_FlatSingleNamespace ==
    /\ settings.folderStructure = "flat"
          /\ OnlyOps({"addKey", "updateKey", "addLanguage", "http"})
          => NamespacesOf(settings) \subseteq {"default"}
    /\ settings.folderStructure = "flat" /\ last.op = "readAll"
          /\ last.prev.op \in {"none", "addKey", "updateKey", "addLanguage", "http"}
          => \A i \in 1..Len(last.result) : last.result[i].namespace = "default"

\* C22: no two File records of the settings, within one language or across
\* languages, have the same absolutePath.
C22_OneRecordPerFile ==
    \A i, j \in 1..Len(settings.languages) :
        \A m \in 1..Len(settings.languages[i].files),
           n \in 1..Len(settings.languages[j].files) :
            settings.languages[i].files[m].absolutePath
                = settings.languages[j].files[n].absolutePath
            => i = j /\ m = n

\* C27: after import, addLanguage, removeFile, addKey, updateKey and intake
\* operations every language has at most one File record per namespace.
C27_OneFilePerNamespace ==
    OnlyOps({"import", "addLanguage", "removeFile", "addKey", "updateKey", "http"}) =>
        \A i \in 1..Len(settings.languages) :
            \A m, n \in 1..Len(settings.languages[i].files) :
                settings.languages[i].files[m].namespace
                    = settings.languages[i].files[n].namespace => m = n

\* updateKey wrote the file of a language and a namespace that had a File, after
\* an operation that added that File
C27_Witness ==
    /\ last.op = "updateKey" /\ last.changed
    /\ last.prev.op \in {"addKey", "http"} /\ last.prev.changed
    /\ <<last.args.lang, last.args.ns>>
          \in {<<r[1], r[2]>> : r \in RecordsOf(last.pre.settings)}
    /\ last.args.ns = "default"

\* C29: after import, addLanguage, removeLanguage and removeFile operations
\* every Language record has at least one File.
C29_NoEmptyLanguage ==
    OnlyOps({"import", "addLanguage", "removeLanguage", "removeFile"}) =>
        \A i \in 1..Len(settings.languages) : settings.languages[i].files # <<>>

\* C24: in namespaced mode with a root folder set, addLanguage(code) for a code
\* that is not configured appends a Language holding exactly one File per
\* namespace of the languages configured before, and leaves those as they were.
C24_AddLanguageNamespaced ==
    /\ last.op = "addLanguage"
    /\ last.pre.settings.folderStructure = "namespaced"
    /\ last.pre.settings.rootFolder # ""
    /\ last.args.code \notin CodesOf(last.pre.settings)
    => LET before == last.pre.settings.languages
           n == Len(settings.languages)
           added == settings.languages[n]
       IN /\ n = Len(before) + 1
          /\ SubSeq(settings.languages, 1, n - 1) = before
          /\ added.code = last.args.code
          /\ {added.files[j].namespace : j \in 1..Len(added.files)}
                = NamespacesOf(last.pre.settings)
          /\ Len(added.files) = Cardinality(NamespacesOf(last.pre.settings))
          /\ \A j \in 1..Len(added.files) :
                added.files[j].absolutePath
                  = Path(settings.rootFolder, added.code, added.files[j].namespace)

\* a language was added to a namespaced configuration with two namespaces
C24_Witness ==
    /\ last.op = "addLanguage" /\ last.changed
    /\ settings.folderStructure = "namespaced"
    /\ Cardinality(NamespacesOf(last.pre.settings)) = 2
    /\ Len(settings.languages[Len(settings.languages)].files) = 2

\* the keys of an aggregate with a null or empty value for a configured language
MissingKeys(keys, codes) ==
    {j \in 1..Len(keys) :
        \E x \in 1..Len(keys[j].values) :
            /\ keys[j].values[x].k \in codes
            /\ keys[j].values[x].v \in {Null, Str("")}}

\* C30: for every namespace aggregate, countKeys(buildTree(keys)) returns
\* completed + missing equal to the number of keys, missing being the number of
\* keys with a null or empty value for some configured language, also when one
\* key is a dot-path prefix of another.
C30_CountsCoverKeys ==
    \A i \in 1..Len(Rows) :
        LET row == Rows[i]
        IN /\ row.completedCount + row.missingCount = Len(row.keys)
           /\ row.missingCount
                 = Cardinality(MissingKeys(row.keys, SeqRange(home.langCodes)))

RECURSIVE SortedDeep(_)
\* the keys of every object of the value, at every depth, are in the order of
\* localeCompare with sensitivity "base"
SortedDeep(v) ==
    /\ \A i \in 1..(Len(v.e) - 1) : localeCompare(v.e[i].k, v.e[i + 1].k) <= 0
    /\ \A i \in 1..Len(v.e) : SortedDeep(v.e[i].v)
    /\ \A i \in 1..Len(v.a) : SortedDeep(v.a[i])

\* the files an operation left with another content than before
Written == {p \in AllPaths : disk[p] # last.pre.disk[p]}

\* C23: right after updateKey, addKey, removeKey or the intake wrote a file, the
\* keys of every object of that file, at every depth, are in alphabetical
\* (case-insensitive) order.
C23_WritesSorted ==
    last.op \in {"updateKey", "addKey", "removeKey", "http"} =>
        \A p \in Written : SortedDeep(disk[p].doc)

----------------------------------------------------------------------------
(* Properties of the handlers on the event loop *)

\* the state before any task ran
Origin == last.pre

\* the operation of a task, run alone on the state S
runTask(S, T) ==
    CASE T.op = "http" -> handleRequest(S, T.args).S
      [] T.op = "addKey" -> addKey(S, T.args.ns, T.args.key)
      [] T.op = "updateKey" ->
            updateKey(S, T.args.ns, T.args.key, T.args.lang, T.args.value)
      [] T.op = "removeKey" -> removeKey(S, T.args.ns, T.args.key).S

\* the files after the operation of task t and then that of task u
DiskAfter(t, u) == runTask(runTask(Origin, tasks[t]), tasks[u]).disk

AllDone == \A t \in TaskIds : tasks[t].pc = "done"

\* C4: with an intake request and a UI mutation in progress together, between
\* an operation's read of a file and its write of it the file holds what was
\* read and the other operation is not between its own read and write of that
\* file; and once both have returned, the files are those left by running the
\* two operations one after the other in one of the two orders.
C4_NoLostWrite ==
    /\ \A t \in TaskIds : tasks[t].pc = "write" =>
          /\ readJsonFile(Current, tasks[t].path) = tasks[t].json
          /\ \A u \in TaskIds \ {t} :
                ~(tasks[u].pc = "write" /\ tasks[u].path = tasks[t].path)
    /\ AllDone => disk \in {DiskAfter("http", "ui"), DiskAfter("ui", "http")}

\* both operations were pending together, both have returned, and the order
\* in which they ran shows in the files
C4_Witness ==
    /\ AllDone
    /\ \E t \in TaskIds : tasks[t].overlapped
    /\ tasks["http"].args.body.kind = "key"
    /\ DiskAfter("http", "ui") # DiskAfter("ui", "http")
    /\ disk # runTask(Origin, tasks["http"]).disk
    /\ disk # runTask(Origin, tasks["ui"]).disk

----------------------------------------------------------------------------
(* Properties of the server *)

\* C8: a start call made while the server is listening creates no server,
\* resolves with {running: true, port: the port the server is bound to} whatever
\* port it is given, and leaves the remembered port and the server as they were.
C8_StartWhileRunning ==
    (srvLast.op = "start" /\ isListening(srvLast.pre)) =>
        /\ srvLast.outcome = "resolved"
        /\ srvLast.result =
              [running |-> TRUE,
               port |-> srvLast.pre.listeners[srvLast.pre.server].port]
        /\ CurrentSrv = srvLast.pre

\* start was called with another port than the bound one while listening
C8_Witness ==
    /\ srvLast.op = "start"
    /\ isListening(srvLast.pre)
    /\ srvLast.port # 0
    /\ srvLast.port # srvLast.pre.listeners[srvLast.pre.server].port

\* C9: when the bind of a start call fails, the call is rejected, the module
\* holds no server and status() reports running = false.
C9_BindFailure ==
    srvLast.op = "listenError" =>
        /\ srvLast.outcome = "rejected"
        /\ server = NoServer
        /\ ~getStatus(CurrentSrv).running

\* the bind of the server the module had just created failed
C9_Witness ==
    /\ srvLast.op = "listenError"
    /\ srvLast.pre.server = srvLast.id
    /\ listeners[srvLast.id].st = "failed"

\* the http.Server objects that are bound to their port
Bound == {id \in ServerIds : listeners[id].st = "listening"}

\* C26: whatever the overlap of start and stop calls, status().running is true
\* exactly when a listener created by startServer is bound, and every bound
\* listener is the one the module references, so that stop() can close it.
C26_NoOrphanListener ==
    /\ getStatus(CurrentSrv).running <=> Bound # {}
    /\ \A id \in Bound : server = id

====
